---------------------------- MODULE Spec2Model ----------------------------
(***************************************************************************)
(* A model of hugefs: a FUSE filesystem whose file contents live in        *)
(* content-addressed backing stores.                                       *)
(*                                                                         *)
(* Three specifications share this module:                                 *)
(*   SpecCatalog  the SQLite metadata catalog (src/src/fs_sqlite.rs);      *)
(*   SpecRead     the read path of immutable files over the store list     *)
(*                (src/src/fusefs.rs, Filesystem::read);                   *)
(*   Spec         the engine: create / open / write / read / release and   *)
(*                the control channel's Finalize over a LocalStore         *)
(*                (src/src/fusefs.rs, src/src/local_store.rs,              *)
(*                src/src/control.rs).                                     *)
(***************************************************************************)
EXTENDS Integers, Sequences, FiniteSets, TLC

(***************************************************************************)
(* Bounds of the model.                                                    *)
(***************************************************************************)
\* how many inode numbers the catalog may issue (the root included)
MaxIno == 3
\* how many rows table DirEntries may hold
MaxEntries == 2

VARIABLES
    \* ---- the catalog (fs_sqlite.rs) ----
    Inodes,       \* table Inodes: ino -> row, or NoRow
    DirEntries,   \* table DirEntries: set of rows [dir, name, ino, type]
    next_ino,     \* the next rowid of table Inodes
    \* ---- the engine (fusefs.rs, control.rs) ----
    superblock,   \* Superblock.inodes: ino -> Inode, or NoInode
    sb_next_ino,  \* Superblock.next_ino
    file_handles, \* FileHandles.handles: fh -> OpenFile, or NoHandle
    next_fh,      \* FileHandles.next_fh
    tasks,        \* the requests in flight on the executor: slot -> task
    \* ---- the stores (local_store.rs) ----
    ca,           \* per store, the files under ca/: set of <<hash, file>>
    mutable,      \* per store, the files under mutable/: set of ids
    files,        \* the bytes of every file created so far: file -> bytes
    objs,         \* the MutableFile objects: id -> [file, lock, len, keep]
    io_fail,      \* the stores whose get fails with an I/O error
    wrote         \* history: the writes that succeeded and were not overwritten

catVars == <<Inodes, DirEntries, next_ino>>
engVars == <<superblock, sb_next_ino, file_handles, next_fh, tasks>>
storeVars == <<ca, mutable, files, objs, io_fail, wrote>>

vars == <<Inodes, DirEntries, next_ino, superblock, sb_next_ino, file_handles,
          next_fh, tasks, ca, mutable, files, objs, io_fail, wrote>>

(***************************************************************************)
(*                    THE CATALOG  (src/src/fs_sqlite.rs)                  *)
(***************************************************************************)
Inos == 1 .. MaxIno
Names == {"a", "b"}
NoRow == [type |-> 0]

\* i64::from(&FileTypeInfo): the type column of Inodes and of DirEntries
TMutableRegular == 1
TImmutableRegular == 2
TDirectory == 3
TSymlink == 4

\* the NewFileInfo values that create_file is called with
NewFileInfos ==
    { [file_type |-> TMutableRegular, ptr |-> "m1", length |-> 0],
      [file_type |-> TImmutableRegular, ptr |-> "h1", length |-> 1],
      [file_type |-> TDirectory, ptr |-> "", length |-> 0],
      [file_type |-> TSymlink, ptr |-> "", length |-> 1] }

\* Filesystem::open creates the root directory in an empty database: the
\* row is inserted with nlink 0 and inc_nlink then makes it 1, although no
\* directory entry binds the root.
root_ino == 1

\* A transaction: the tables as the transaction sees them, and the error
\* that aborted it ("ok" while it runs).
Txn(ino, ent, nxt, err) == [ino |-> ino, ent |-> ent, nxt |-> nxt, err |-> err]
Fail(T, err) == [T EXCEPT !.err = err]

\* stat: the row of ino, or NoSuchInode
stat(T, ino) == IF ino \in Inos /\ T.ino[ino] # NoRow THEN "ok" ELSE "NoSuchInode"

\* a get_dir_entry that finds no entry
get_dir_entry_none(T, parent_ino, entry_name) == 0

\* get_dir_entry: the inode bound to (parent_ino, entry_name), 0 when none
get_dir_entry(T, parent_ino, entry_name) ==
    LET hit == {e \in T.ent : e.dir = parent_ino /\ e.name = entry_name}
    IN IF hit = {} THEN 0 ELSE (CHOOSE e \in hit : TRUE).ino

\* rowid allocation of "insert into Inodes": monotonically issued
AllocIno(T) == T.nxt

\* create_inode: a new row with nlink 0; the statement fails when the
\* table cannot take another row.  The perm, uid and gid of the callers and
\* the clock of Time::now() are fixed at 0.
create_inode(T, info) ==
    IF T.err # "ok" THEN T
    ELSE IF AllocIno(T) \notin Inos THEN Fail(T, "StorageError")
    ELSE [T EXCEPT !.ino[AllocIno(T)] =
                       [type |-> info.file_type, nlink |-> 0,
                        length |-> info.length, ptr |-> info.ptr,
                        perm |-> 0, uid |-> 0, gid |-> 0,
                        crtime |-> 0, mtime |-> 0],
                   !.nxt = T.nxt + 1]

\* a link_file that binds the entry and leaves the count alone
inc_nlink_forgotten(T, ino) == T

\* inc_nlink: update ... set nlink = nlink + 1; assert_eq!(nr_updated, 1)
inc_nlink(T, ino) ==
    IF T.err # "ok" THEN T
    ELSE IF stat(T, ino) # "ok" THEN Fail(T, "panic")
    ELSE [T EXCEPT !.ino[ino].nlink = @ + 1]

\* dec_nlink: update ... set nlink = nlink - 1 where nlink > 0;
\* assert_eq!(nr_updated, 1)
dec_nlink(T, ino) ==
    IF T.err # "ok" THEN T
    ELSE IF stat(T, ino) # "ok" \/ T.ino[ino].nlink = 0 THEN Fail(T, "panic")
    ELSE [T EXCEPT !.ino[ino].nlink = @ - 1]

\* the foreign keys of DirEntries (dir and ino reference Inodes): deleting a
\* row of Inodes that a directory entry still names is a constraint violation
ReferencedByEntry(T, ino) == \E e \in T.ent : e.dir = ino \/ e.ino = ino

\* delete_inode: delete from Inodes; a constraint violation is NotEmpty
delete_inode(T, ino) ==
    IF T.err # "ok" THEN T
    ELSE IF ReferencedByEntry(T, ino) THEN Fail(T, "NotEmpty")
    ELSE [T EXCEPT !.ino[ino] = NoRow]

\* dec_nlink(..)? == 0 => delete_inode
dec_and_maybe_delete(T, ino) ==
    LET T1 == dec_nlink(T, ino)
    IN IF T1.err # "ok" THEN T1
       ELSE IF T1.ino[ino].nlink = 0 THEN delete_inode(T1, ino)
       ELSE T1

\* link_file: bind (parent_ino, entry_name) to ino, replacing a previous
\* binding unless exclusive
link_file(T, parent_ino, exclusive, entry_name, ino) ==
    LET prev_ino == get_dir_entry(T, parent_ino, entry_name)
        \* insert or replace into DirEntries; both foreign keys must resolve
        T1 == IF stat(T, parent_ino) # "ok" \/ stat(T, ino) # "ok"
              THEN Fail(T, "StorageError")
              ELSE [T EXCEPT !.ent =
                     {e \in T.ent : ~(e.dir = parent_ino /\ e.name = entry_name)}
                     \cup {[dir |-> parent_ino, name |-> entry_name, ino |-> ino,
                            type |-> T.ino[ino].type]}]
        T2 == inc_nlink(T1, ino)
    IN IF T.err # "ok" THEN T
       ELSE IF prev_ino = ino THEN T
       ELSE IF prev_ino # 0 /\ exclusive THEN Fail(T, "EntryExists")
       ELSE IF prev_ino # 0 THEN dec_and_maybe_delete(T2, prev_ino)
       ELSE T2

\* an unlink_file that leaves the entry and the inode alone
unlink_file_skipped(T, parent_ino, entry_name) == T

\* unlink_file: remove the entry, drop a link, delete the inode at 0
unlink_file(T, parent_ino, entry_name) ==
    LET entry_ino == get_dir_entry(T, parent_ino, entry_name)
        T1 == [T EXCEPT !.ent =
                 {e \in T.ent : ~(e.dir = parent_ino /\ e.name = entry_name)}]
    IN IF T.err # "ok" THEN T
       ELSE IF entry_ino = 0 THEN Fail(T, "NoSuchEntry")
       ELSE dec_and_maybe_delete(T1, entry_ino)

\* the transaction every public call opens on the committed tables
Begin == Txn(Inodes, DirEntries, next_ino, "ok")

\* txn.commit() on success; a transaction dropped on error rolls back
Commit(T) ==
    IF T.err = "ok"
    THEN /\ Inodes' = T.ino
         /\ DirEntries' = T.ent
         /\ next_ino' = T.nxt
    ELSE UNCHANGED <<Inodes, DirEntries, next_ino>>

\* the tables a public call leaves behind: those of its transaction when it
\* committed, the ones it began with when it was rolled back
Committed(T) == IF T.err = "ok" THEN T ELSE Begin

CatStep(A) == A /\ UNCHANGED <<engVars, storeVars>>

\* Filesystem::create_file up to txn.commit(): create_inode, link_file
create_file_txn(parent_ino, name, exclusive, info) ==
    LET T1 == create_inode(Begin, info)
    IN link_file(T1, parent_ino, exclusive, name, AllocIno(Begin))

\* Filesystem::create_file
create_file(parent_ino, name, exclusive, info) ==
    Commit(create_file_txn(parent_ino, name, exclusive, info))

\* Filesystem::remove_file
remove_file(parent_ino, name) ==
    Commit(unlink_file(Begin, parent_ino, name))

\* lookup: the inode (dir, name) binds, then its stat
lookup(T, dir, name) ==
    IF get_dir_entry(T, dir, name) = 0 THEN "NoSuchEntry"
    ELSE stat(T, get_dir_entry(T, dir, name))

\* Filesystem::rename up to txn.commit(): lookup, link_file, unlink_file
rename_txn(from_dir, from_name, to_dir, to_name) ==
    LET st == lookup(Begin, from_dir, from_name)
        T1 == link_file(Begin, to_dir, FALSE, to_name,
                        get_dir_entry(Begin, from_dir, from_name))
        T2 == unlink_file(T1, from_dir, from_name)
    IN IF st # "ok" THEN Fail(Begin, st) ELSE T2

\* Filesystem::rename
rename(from_dir, from_name, to_dir, to_name) ==
    Commit(rename_txn(from_dir, from_name, to_dir, to_name))

\* Filesystem::link
link(ino, dir, name) ==
    IF stat(Begin, ino) # "ok" THEN Commit(Fail(Begin, "NoSuchInode"))
    ELSE Commit(link_file(Begin, dir, FALSE, name, ino))

\* finalize(ino, hash): a mutable-file row becomes an immutable-file row
\* holding the hash; its length column stays
finalize(ino, hash) ==
    IF stat(Begin, ino) # "ok" THEN Commit(Fail(Begin, "NoSuchInode"))
    ELSE IF Inodes[ino].type # TMutableRegular
    THEN Commit(Fail(Begin, "NotMutableFile"))
    ELSE Commit([Begin EXCEPT !.ino[ino].type = TImmutableRegular,
                              !.ino[ino].ptr = hash])

CatTables ==
    /\ Inodes = [i \in Inos |->
                   IF i = root_ino
                   THEN [type |-> TDirectory, nlink |-> 1, length |-> 0, ptr |-> "",
                         perm |-> 0, uid |-> 0, gid |-> 0,
                         crtime |-> 0, mtime |-> 0]
                   ELSE NoRow]
    /\ DirEntries = {}
    /\ next_ino = root_ino + 1

\* the engine and the stores take no part in SpecCatalog
CatInit ==
    /\ CatTables
    /\ superblock = <<>> /\ sb_next_ino = 0 /\ file_handles = <<>>
    /\ next_fh = 0 /\ tasks = <<>> /\ ca = <<>> /\ mutable = <<>>
    /\ files = <<>> /\ objs = <<>> /\ io_fail = {} /\ wrote = {}

\* the table is full: calls that add a row are not issued
RoomForEntry == Cardinality(DirEntries) < MaxEntries

CatCreate == /\ RoomForEntry
             /\ \E p \in Inos, n \in Names, x \in BOOLEAN, info \in NewFileInfos :
                    CatStep(create_file(p, n, x, info))
CatRemove == \E p \in Inos, n \in Names : CatStep(remove_file(p, n))
CatRename == \E d1 \in Inos, n1 \in Names, d2 \in Inos, n2 \in Names :
                 CatStep(rename(d1, n1, d2, n2))
CatLink == /\ RoomForEntry
           /\ \E i \in Inos, d \in Inos, n \in Names : CatStep(link(i, d, n))
CatFinalize == \E i \in Inos : CatStep(finalize(i, "h1"))

CatNext == CatCreate \/ CatRemove \/ CatRename \/ CatLink \/ CatFinalize

SpecCatalog == CatInit /\ [][CatNext]_vars

(***************************************************************************)
(* C1.  The link count stat returns for an inode equals the number of      *)
(* directory entries, over all directories, that bind it -- for every      *)
(* inode but the root, whose count is one more (Filesystem::open).         *)
(***************************************************************************)
Bindings(ino) == Cardinality({e \in DirEntries : e.ino = ino})

\* C1 as stated: every inode, the root included
C1_LinkCountAllInodes ==
    \A i \in Inos : Inodes[i] # NoRow => Inodes[i].nlink = Bindings(i)

\* C1 amended
C1_LinkCount ==
    \A i \in Inos : Inodes[i] # NoRow =>
        Inodes[i].nlink = Bindings(i) + (IF i = root_ino THEN 1 ELSE 0)

\* a file bound by two names after a link, a rename and a replacement
C1_Witness ==
    /\ \E i \in Inos : i # root_ino /\ Inodes[i] # NoRow /\ Bindings(i) = 2
    /\ \E i \in Inos : i # root_ino /\ Inodes[i] = NoRow /\ i < next_ino


(***************************************************************************)
(*       THE STORES  (src/src/local_store.rs, src/src/hash.rs)             *)
(***************************************************************************)
\* the store list of the mount, in the order of the command line
StoreUrls == <<"/s1", "/s2">>
StoreIds == 1 .. Len(StoreUrls)

Max(a, b) == IF a > b THEN a ELSE b
Min(a, b) == IF a < b THEN a ELSE b

\* Hash::hash: the number of bytes read and their digest (collision-free)
Hash_hash(buf) == [len |-> Len(buf), hash |-> <<"blake2b", buf>>]

\* seek(Start(offset)) then write_all(data): a hole reads as zeros
PWrite(buf, offset, data) ==
    [i \in 1 .. Max(Len(buf), offset + Len(data)) |->
        IF i > offset /\ i <= offset + Len(data) THEN data[i - offset]
        ELSE IF i <= Len(buf) THEN buf[i]
        ELSE 0]

\* seek(Start(offset)) then read_n: up to size bytes, fewer at end of file
PRead(buf, offset, size) == SubSeq(buf, offset + 1, Min(Len(buf), offset + size))

\* path_for_hash(root, hash) as a file: 0 when ca/<hash> does not exist
CaFile(s, hash) ==
    LET hit == {e \in ca[s] : e[1] = hash}
    IN IF hit = {} THEN 0 ELSE (CHOOSE e \in hit : TRUE)[2]

\* LocalStore::has
has(s, hash) == CaFile(s, hash) # 0

get_absent_on_error(s, hash, offset, size) ==
    IF s \in io_fail \/ ~has(s, hash) THEN [kind |-> "NoSuchHash"]
    ELSE [kind |-> "data", bytes |-> PRead(files[CaFile(s, hash)], offset, size)]

\* LocalStore::get: NoSuchHash when ca/<hash> is absent, an I/O error of the
\* store otherwise, else the bytes read
get(s, hash, offset, size) ==
    IF s \in io_fail THEN [kind |-> "StorageError"]
    ELSE IF ~has(s, hash) THEN [kind |-> "NoSuchHash"]
    ELSE [kind |-> "data", bytes |-> PRead(files[CaFile(s, hash)], offset, size)]

\* create_file(stores): the first store whose create_file is provided
\* (every LocalStore provides it)
first_writable == 1

\* open_file(stores, id): the first store that has mutable/<id>, 0 when none
open_file(id) ==
    IF \E s \in StoreIds : id \in mutable[s]
    THEN CHOOSE s \in StoreIds :
            id \in mutable[s] /\ \A s2 \in StoreIds : id \in mutable[s2] => s <= s2
    ELSE 0

\* MutableFile::finish after the bytes were read and hashed: remove the
\* temporary when ca/<hash> exists, else rename it there; either fails when
\* mutable/<id> is gone
finish_promote(s, id, hash) ==
    IF id \notin mutable[s] THEN [ok |-> FALSE, ca |-> ca, mutable |-> mutable]
    ELSE IF has(s, hash)
    THEN [ok |-> TRUE, ca |-> ca,
          mutable |-> [mutable EXCEPT ![s] = @ \ {id}]]
    ELSE [ok |-> TRUE, ca |-> [ca EXCEPT ![s] = @ \cup {<<hash, id>>}],
          mutable |-> [mutable EXCEPT ![s] = @ \ {id}]]

\* a Drop that removes the temporary whether or not it was kept
drop_file_always(mut, s, id, keep) == [mut EXCEPT ![s] = @ \ {id}]

\* a Drop that leaves the temporary in place
drop_file_never(mut, s, id, keep) == mut

\* impl Drop for MutableFile: remove mutable/<id> unless keep
drop_file(mut, s, id, keep) ==
    IF keep THEN mut ELSE [mut EXCEPT ![s] = @ \ {id}]

(***************************************************************************)
(*      THE ENGINE  (src/src/fusefs.rs, src/src/fs.rs, control.rs)         *)
(***************************************************************************)
\* how many handle ids FileHandles may issue
MaxFh == 2
\* how many mutable files the stores may create
MaxCreates == 1

\* how many inode numbers the superblock may issue (the root included)
MaxSbIno == 2

Fhs == 1 .. MaxFh
EngInos == 1 .. MaxSbIno
TaskIds == 1 .. 2
\* the (offset, data) of the write requests, the (offset, size) of the reads
Writes == {<<0, <<1>>>>, <<0, <<2>>>>, <<1, <<1>>>>}
Reads == {<<0, 1>>, <<1, 1>>}
\* the directories the requests name as parent, the names create asks for
Parents == {root_ino}
CreateNames == {"a"}

NoInode == [kind |-> "none"]
NoHandle == [inode |-> 0]
Idle == [op |-> "idle"]
NoEntries == [n \in Names |-> 0]

\* Superblock::get_inode
get_inode(ino) == superblock[ino]

\* Inode::is_file
is_file(inode) == inode.kind \in {"RegularFile", "MutableFile"}

\* OpenRegularFile::new; served is history: the stores a read of the handle
\* has returned bytes from
OpenRegularFile(ino) ==
    [inode |-> ino, for_writing |-> FALSE, store |-> 0, served |-> {}]

Done(t, op, res) == tasks' = [tasks EXCEPT ![t] = [op |-> op, pc |-> "done", res |-> res]]

EngStep(A) == A /\ UNCHANGED catVars

\* a request is taken up by the first free task
Free(t) == tasks[t] = Idle /\ \A u \in TaskIds : tasks[u] = Idle => t <= u

\* the calls that create a directory entry: the parent must be a directory
\* without that name (get_directory_mut, check_no_entry)
entry_error(parent, name) ==
    IF get_inode(parent) = NoInode THEN "NoSuchInode"
    ELSE IF get_inode(parent).kind # "Directory" THEN "NotDirectory"
    ELSE IF get_inode(parent).entries[name] # 0 THEN "EntryExists"
    ELSE "ok"

alloc_inode_stuck == root_ino + 1

\* Superblock::alloc_inode: the number the next inode gets
alloc_inode == sb_next_ino

\* Superblock::add_inode followed by dir.entries.insert(name, ino)
add_inode(parent, name, inode) ==
    [superblock EXCEPT ![alloc_inode] = inode,
                       ![parent].entries[name] = alloc_inode]

\* the inodes still to be issued cover the creating requests in flight
RoomForInode ==
    alloc_inode + Cardinality({t \in TaskIds : tasks[t].op = "create"
                                               /\ tasks[t].pc = "commit"}) <= MaxSbIno

\* Filesystem::mkdir, Filesystem::symlink
MkNode(parent, name, kind) ==
    /\ RoomForInode
    /\ entry_error(parent, name) = "ok"
    /\ superblock' = add_inode(parent, name,
                        IF kind = "Directory"
                        THEN [kind |-> "Directory", entries |-> NoEntries]
                        ELSE [kind |-> "Symlink"])
    /\ sb_next_ino' = sb_next_ino + 1
    /\ UNCHANGED <<file_handles, next_fh, tasks, storeVars>>

\* Filesystem::create, up to the await of create_file(stores): the store
\* makes mutable/<id> and a MutableFile object that is not kept
CreateAlloc(t, parent, name) ==
    /\ Free(t)
    /\ RoomForInode
    /\ next_fh <= MaxFh
    /\ Len(files) < MaxCreates
    /\ files' = Append(files, <<>>)
    /\ mutable' = [mutable EXCEPT ![first_writable] = @ \cup {Len(files) + 1}]
    /\ objs' = Append(objs, [store |-> first_writable, file |-> TRUE,
                             lock |-> FALSE, len |-> 0, keep |-> FALSE])
    /\ tasks' = [tasks EXCEPT ![t] = [op |-> "create", pc |-> "commit",
                                      parent |-> parent, name |-> name,
                                      id |-> Len(files) + 1]]
    /\ UNCHANGED <<superblock, sb_next_ino, file_handles, next_fh, ca, io_fail, wrote>>

\* Filesystem::create after the await: the inode, the entry and the handle;
\* on an error the MutableFile is dropped
CreateCommit(t) ==
    LET k == tasks[t]
        err == entry_error(k.parent, k.name)
    IN /\ k.op = "create" /\ k.pc = "commit"
       /\ IF err = "ok"
          THEN /\ superblock' = add_inode(k.parent, k.name,
                                          [kind |-> "MutableFile", id |-> k.id])
               /\ sb_next_ino' = sb_next_ino + 1
               /\ file_handles' = [file_handles EXCEPT ![next_fh] =
                                     [OpenRegularFile(alloc_inode)
                                        EXCEPT !.for_writing = TRUE]]
               /\ next_fh' = next_fh + 1
               /\ Done(t, "create", [kind |-> "ok", fh |-> next_fh, ino |-> alloc_inode])
               /\ UNCHANGED mutable
          ELSE /\ mutable' = drop_file(mutable, objs[k.id].store, k.id, objs[k.id].keep)
               /\ Done(t, "create", [kind |-> err])
               /\ UNCHANGED <<superblock, sb_next_ino, file_handles, next_fh>>
       /\ UNCHANGED <<ca, files, objs, io_fail, wrote>>

\* Filesystem::open on an inode of the superblock
Open(ino) ==
    /\ next_fh <= MaxFh
    /\ get_inode(ino) # NoInode
    /\ is_file(get_inode(ino))
    /\ file_handles' = [file_handles EXCEPT ![next_fh] = OpenRegularFile(ino)]
    /\ next_fh' = next_fh + 1
    /\ UNCHANGED <<superblock, sb_next_ino, tasks, storeVars>>

\* the error of a read or write on fh before any I/O: BadFileHandle for a
\* handle not in the table, EISDIR for a handle on no file
handle_error(fh) ==
    IF file_handles[fh] = NoHandle THEN "BadFileHandle"
    ELSE IF ~is_file(get_inode(file_handles[fh].inode)) THEN "EISDIR"
    ELSE "ok"

\* Filesystem::write under the state lock: the MutableFile of the inode
WriteStart(t, fh, offset, data) ==
    LET inode == get_inode(file_handles[fh].inode)
    IN /\ Free(t)
       /\ IF handle_error(fh) # "ok"
          THEN Done(t, "write", [kind |-> handle_error(fh)])
          ELSE IF inode.kind = "RegularFile"
          THEN Done(t, "write", [kind |-> "EPERM"])
          ELSE tasks' = [tasks EXCEPT ![t] =
                           [op |-> "write", pc |-> "do", fh |-> fh,
                            ino |-> file_handles[fh].inode, id |-> inode.id,
                            offset |-> offset, data |-> data]]
       /\ UNCHANGED <<superblock, sb_next_ino, file_handles, next_fh, storeVars>>

\* the writes of the history that a write of [offset, offset + n) on ino
\* does not overlap
NotOverwritten(ino, offset, n) ==
    {w \in wrote : IF w.ino = ino
                   THEN offset + n <= w.offset \/ w.offset + Len(w.data) <= offset
                   ELSE TRUE}

\* MutableFile::write: under the object's mutex, seek, write_all, fetch_max;
\* the object panics once its file was taken
MutableFile_write(t) ==
    LET k == tasks[t]
        o == objs[k.id]
    IN /\ k.op = "write" /\ k.pc = "do"
       /\ ~o.lock
       /\ IF o.file
          THEN /\ files' = [files EXCEPT ![k.id] = PWrite(@, k.offset, k.data)]
               /\ objs' = [objs EXCEPT ![k.id].len = Max(@, k.offset + Len(k.data))]
               /\ wrote' = NotOverwritten(k.ino, k.offset, Len(k.data))
                             \cup {[fh |-> k.fh, ino |-> k.ino, offset |-> k.offset,
                                     data |-> k.data]}
               /\ Done(t, "write", [kind |-> "ok", fh |-> k.fh, ino |-> k.ino,
                                    offset |-> k.offset, data |-> k.data])
          ELSE /\ Done(t, "write", [kind |-> "panic"])
               /\ UNCHANGED <<files, objs, wrote>>
       /\ UNCHANGED <<superblock, sb_next_ino, file_handles, next_fh, ca, mutable, io_fail>>

\* what the history says a read of (fh, offset, size) has to return
Expect(fh, offset, size) ==
    {w.data : w \in {x \in wrote : x.fh = fh /\ x.offset = offset
                                     /\ Len(x.data) = size}}

\* which answers of get let the probe loop go on to the next store
probe_continues_any(ans) == ans.kind # "data"
probe_continues(ans) == ans.kind = "NoSuchHash"

\* whether a read consults the slot of the handle instead of probing
delegates(sticky) == sticky # 0

\* Filesystem::read under the state lock: the kind of file behind fh
ReadStart(t, fh, offset, size) ==
    LET h == file_handles[fh]
        inode == get_inode(h.inode)
    IN /\ Free(t)
       /\ IF handle_error(fh) # "ok"
          THEN Done(t, "read", [kind |-> handle_error(fh)])
          ELSE IF inode.kind = "MutableFile"
          THEN tasks' = [tasks EXCEPT ![t] =
                           [op |-> "read", pc |-> "mutable", fh |-> fh,
                            ino |-> h.inode, id |-> inode.id,
                            offset |-> offset, size |-> size]]
          ELSE tasks' = [tasks EXCEPT ![t] =
                           [op |-> "read",
                            pc |-> IF delegates(h.store) THEN "sticky" ELSE "probe",
                            fh |-> fh, ino |-> h.inode, hash |-> inode.hash,
                            offset |-> offset, size |-> size,
                            sticky |-> h.store, next |-> 1, log |-> <<>>,
                            prior |-> h.served,
                            held |-> {s \in StoreIds : has(s, inode.hash)}]]
       /\ UNCHANGED <<superblock, sb_next_ino, file_handles, next_fh, storeVars>>

\* MutableFile::read: under the object's mutex, seek and read_n
MutableFile_read(t) ==
    LET k == tasks[t]
        o == objs[k.id]
    IN /\ k.op = "read" /\ k.pc = "mutable"
       /\ ~o.lock
       /\ IF o.file
          THEN Done(t, "read", [kind |-> "data", fh |-> k.fh, ino |-> k.ino,
                                bytes |-> PRead(files[k.id], k.offset, k.size),
                                expect |-> Expect(k.fh, k.offset, k.size)])
          ELSE Done(t, "read", [kind |-> "panic", fh |-> k.fh,
                                expect |-> Expect(k.fh, k.offset, k.size)])
       /\ UNCHANGED <<superblock, sb_next_ino, file_handles, next_fh, storeVars>>

\* the reply was sent: the task is gone
Reply(t) ==
    /\ tasks[t].op # "idle" /\ tasks[t].pc = "done"
    /\ tasks' = [tasks EXCEPT ![t] = Idle]
    /\ UNCHANGED <<superblock, sb_next_ino, file_handles, next_fh, storeVars>>


\* Filesystem::read, the slot was set: get on the sticky store only
ReadSticky(t) ==
    LET k == tasks[t]
        ans == get(k.sticky, k.hash, k.offset, k.size)
        log == Append(k.log, [store |-> k.sticky, ans |-> ans.kind])
    IN /\ k.op = "read" /\ k.pc = "sticky"
       /\ IF ans.kind = "data"
          THEN Done(t, "read", [kind |-> "data", fh |-> k.fh, ino |-> k.ino,
                                bytes |-> ans.bytes,
                                expect |-> Expect(k.fh, k.offset, k.size),
                                sticky |-> k.sticky, prior |-> k.prior,
                                log |-> log, held |-> k.held,
                                offset |-> k.offset, size |-> k.size])
          ELSE Done(t, "read", [kind |-> IF ans.kind = "NoSuchHash"
                                         THEN "ENOMEDIUM" ELSE "EIO",
                                fh |-> k.fh, sticky |-> k.sticky, prior |-> k.prior,
                                log |-> log, held |-> k.held,
                                offset |-> k.offset, size |-> k.size])
       /\ UNCHANGED <<superblock, sb_next_ino, file_handles, next_fh, storeVars>>

\* Filesystem::read, the slot was empty: one turn of the loop over the stores
ReadProbe(t) ==
    LET k == tasks[t]
        ans == get(k.next, k.hash, k.offset, k.size)
        log == Append(k.log, [store |-> k.next, ans |-> ans.kind])
    IN /\ k.op = "read" /\ k.pc = "probe"
       /\ IF ans.kind = "data"
          THEN tasks' = [tasks EXCEPT ![t] =
                           [k EXCEPT !.pc = "latch", !.log = log] @@
                           [bytes |-> ans.bytes,
                            expect |-> Expect(k.fh, k.offset, k.size)]]
          ELSE IF ~probe_continues(ans)
          THEN Done(t, "read", [kind |-> "EIO", fh |-> k.fh, sticky |-> 0,
                                prior |-> k.prior, log |-> log, held |-> k.held,
                                offset |-> k.offset, size |-> k.size])
          ELSE IF k.next = Len(StoreUrls)
          THEN Done(t, "read", [kind |-> "ENOMEDIUM", fh |-> k.fh, sticky |-> 0,
                                prior |-> k.prior, log |-> log, held |-> k.held,
                                offset |-> k.offset, size |-> k.size])
          ELSE tasks' = [tasks EXCEPT ![t].next = k.next + 1, ![t].log = log]
       /\ UNCHANGED <<superblock, sb_next_ino, file_handles, next_fh, storeVars>>

\* a latch that puts the handle back into the table when it has left it
ReadLatch_recreate(t) ==
    LET k == tasks[t]
        s == k.log[Len(k.log)].store
    IN /\ k.op = "read" /\ k.pc = "latch"
       /\ file_handles' = [file_handles EXCEPT ![k.fh] =
             [IF @ = NoHandle THEN OpenRegularFile(k.ino) ELSE @
                EXCEPT !.store = s, !.served = @ \cup {s}]]
       /\ Done(t, "read", [kind |-> "data", fh |-> k.fh, ino |-> k.ino,
                           bytes |-> k.bytes, expect |-> k.expect,
                           sticky |-> 0, prior |-> k.prior,
                           log |-> k.log, held |-> k.held,
                           offset |-> k.offset, size |-> k.size])
       /\ UNCHANGED <<superblock, sb_next_ino, next_fh, storeVars>>

\* Filesystem::read after a store answered: get_regular(fh)?, set the slot,
\* return the bytes
ReadLatch(t) ==
    LET k == tasks[t]
        s == k.log[Len(k.log)].store
    IN /\ k.op = "read" /\ k.pc = "latch"
       /\ IF file_handles[k.fh] = NoHandle
          THEN /\ Done(t, "read", [kind |-> "BadFileHandle", fh |-> k.fh, sticky |-> 0,
                                   prior |-> k.prior, log |-> k.log, held |-> k.held,
                                   offset |-> k.offset, size |-> k.size])
               /\ UNCHANGED file_handles
          ELSE /\ file_handles' = [file_handles EXCEPT ![k.fh].store = s,
                                                       ![k.fh].served = @ \cup {s}]
               /\ Done(t, "read", [kind |-> "data", fh |-> k.fh, ino |-> k.ino,
                                   bytes |-> k.bytes, expect |-> k.expect,
                                   sticky |-> 0, prior |-> k.prior,
                                   log |-> k.log, held |-> k.held,
                                   offset |-> k.offset, size |-> k.size])
       /\ UNCHANGED <<superblock, sb_next_ino, next_fh, storeVars>>

finishes_on_release_any(h, inode) == inode.kind = "MutableFile"

\* Filesystem::release: which handles make release finish the file
finishes_on_release(h, inode) == h.for_writing /\ inode.kind = "MutableFile"

\* Filesystem::release under the state lock: the handle leaves the table; a
\* handle for writing on a mutable file goes on to finish the file
ReleaseStart(t, fh) ==
    LET h == file_handles[fh]
        inode == get_inode(h.inode)
    IN /\ Free(t)
       /\ IF h = NoHandle
          THEN /\ Done(t, "release", [kind |-> "BadFileHandle"])
               /\ UNCHANGED file_handles
          ELSE /\ file_handles' = [file_handles EXCEPT ![fh] = NoHandle]
               /\ IF finishes_on_release(h, inode)
                  THEN tasks' = [tasks EXCEPT ![t] =
                                   [op |-> "release", pc |-> "finishA", fh |-> fh,
                                    ino |-> h.inode, id |-> inode.id,
                                    for_writing |-> h.for_writing]]
                  ELSE Done(t, "release", [kind |-> "ok", fh |-> fh, ino |-> h.inode,
                                           for_writing |-> h.for_writing,
                                           was |-> inode])
       /\ UNCHANGED <<superblock, sb_next_ino, next_fh, storeVars>>

\* MutableFile::finish on the object of the inode: take the mutex and the
\* file, read it to the end and hash it
ReleaseFinishA(t) ==
    LET k == tasks[t]
        o == objs[k.id]
    IN /\ k.op = "release" /\ k.pc = "finishA"
       /\ ~o.lock
       /\ IF o.file
          THEN /\ objs' = [objs EXCEPT ![k.id].file = FALSE, ![k.id].lock = TRUE]
               /\ tasks' = [tasks EXCEPT ![t] =
                              [k EXCEPT !.pc = "finishB"] @@ Hash_hash(files[k.id])]
          ELSE /\ Done(t, "release", [kind |-> "panic"])
               /\ UNCHANGED objs
       /\ UNCHANGED <<superblock, sb_next_ino, file_handles, next_fh,
                      ca, mutable, files, io_fail, wrote>>

\* MutableFile::finish, second half: promote the temporary, drop the mutex;
\* release unwraps the result
ReleaseFinishB(t) ==
    LET k == tasks[t]
        r == finish_promote(objs[k.id].store, k.id, k.hash)
    IN /\ k.op = "release" /\ k.pc = "finishB"
       /\ objs' = [objs EXCEPT ![k.id].lock = FALSE]
       /\ ca' = r.ca
       /\ mutable' = r.mutable
       /\ IF r.ok
          THEN tasks' = [tasks EXCEPT ![t].pc = "convert"]
          ELSE Done(t, "release", [kind |-> "panic"])
       /\ UNCHANGED <<superblock, sb_next_ino, file_handles, next_fh,
                      files, io_fail, wrote>>

\* Filesystem::release, the end: the contents of the inode become a
\* RegularFile; the MutableFile they held is dropped
ReleaseConvert(t) ==
    LET k == tasks[t]
    IN /\ k.op = "release" /\ k.pc = "convert"
       /\ superblock' = [superblock EXCEPT ![k.ino] =
                           [kind |-> "RegularFile", length |-> k.len, hash |-> k.hash]]
       /\ mutable' = drop_file(mutable, objs[k.id].store, k.id, objs[k.id].keep)
       /\ Done(t, "release", [kind |-> "ok", fh |-> k.fh, ino |-> k.ino,
                              for_writing |-> k.for_writing,
                              was |-> get_inode(k.ino)])
       /\ UNCHANGED <<sb_next_ino, file_handles, next_fh, ca, files, objs,
                      io_fail, wrote>>


\* lookup_path of a one-component path: the entry of the root directory
lookup_path(name) == get_inode(root_ino).entries[name]

\* the length the catalog holds for a mutable file: the high-water mark of
\* the writes made through the inode's MutableFile
catalog_length(id) == objs[id].len

\* handle_finalize, the stat of the path: only a mutable file is finalised
FinalizeStart(t, name) ==
    LET ino == lookup_path(name)
        inode == get_inode(ino)
    IN /\ Free(t)
       /\ IF ino = 0
          THEN Done(t, "Finalize", [kind |-> "NoSuchEntry"])
          ELSE IF inode.kind # "MutableFile"
          THEN Done(t, "Finalize", [kind |-> "ok", converted |-> FALSE])
          ELSE tasks' = [tasks EXCEPT ![t] =
                           [op |-> "Finalize", pc |-> "open", ino |-> ino,
                            id |-> inode.id, length |-> catalog_length(inode.id)]]
       /\ UNCHANGED <<superblock, sb_next_ino, file_handles, next_fh, storeVars>>

\* handle_finalize, open_file(stores, &id): a MutableFile of its own on
\* mutable/<id> of the first store that has it
FinalizeOpen(t) ==
    LET k == tasks[t]
    IN /\ k.op = "Finalize" /\ k.pc = "open"
       /\ IF open_file(k.id) = 0
          THEN Done(t, "Finalize", [kind |-> "NoSuchMutableFile"])
          ELSE tasks' = [tasks EXCEPT ![t] =
                           [k EXCEPT !.pc = "finishA"] @@ [store |-> open_file(k.id)]]
       /\ UNCHANGED <<superblock, sb_next_ino, file_handles, next_fh, storeVars>>

\* MutableFile::finish on the request's own object: read the file to the
\* end and hash it
FinalizeFinishA(t) ==
    LET k == tasks[t]
    IN /\ k.op = "Finalize" /\ k.pc = "finishA"
       /\ tasks' = [tasks EXCEPT ![t] =
                      [k EXCEPT !.pc = "finishB"] @@
                      [length2 |-> Hash_hash(files[k.id]).len,
                       hash |-> Hash_hash(files[k.id]).hash]]
       /\ UNCHANGED <<superblock, sb_next_ino, file_handles, next_fh, storeVars>>

\* MutableFile::finish, second half: promote the temporary; an error ends
\* the request
FinalizeFinishB(t) ==
    LET k == tasks[t]
        r == finish_promote(k.store, k.id, k.hash)
    IN /\ k.op = "Finalize" /\ k.pc = "finishB"
       /\ ca' = r.ca
       /\ mutable' = r.mutable
       /\ IF r.ok
          THEN tasks' = [tasks EXCEPT ![t].pc = "commit"]
          ELSE Done(t, "Finalize", [kind |-> "StorageError"])
       /\ UNCHANGED <<superblock, sb_next_ino, file_handles, next_fh,
                      files, objs, io_fail, wrote>>

\* fs.finalize(ino, &hash) on the inodes of the engine: a mutable file
\* becomes an immutable file of that hash and of the length the catalog holds
sb_finalize(ino, hash) ==
    [superblock EXCEPT ![ino] =
        [kind |-> "RegularFile", length |-> catalog_length(superblock[ino].id),
         hash |-> hash]]

\* handle_finalize, the end: assert_eq!(length, length2), then fs.finalize
FinalizeCommit(t) ==
    LET k == tasks[t]
    IN /\ k.op = "Finalize" /\ k.pc = "commit"
       /\ IF k.length # k.length2
          THEN /\ Done(t, "Finalize", [kind |-> "panic"])
               /\ UNCHANGED superblock
          ELSE IF get_inode(k.ino).kind # "MutableFile"
          THEN /\ Done(t, "Finalize", [kind |-> "NotMutableFile"])
               /\ UNCHANGED superblock
          ELSE /\ superblock' = sb_finalize(k.ino, k.hash)
               /\ Done(t, "Finalize", [kind |-> "ok", converted |-> TRUE,
                                       ino |-> k.ino, id |-> k.id, store |-> k.store,
                                       length |-> k.length, written |-> files[k.id]])
       /\ UNCHANGED <<sb_next_ino, file_handles, next_fh, storeVars>>

\* Superblock::new, FilesystemState::new, empty LocalStores
EngInit ==
    /\ superblock = [i \in EngInos |->
                       IF i = root_ino
                       THEN [kind |-> "Directory", entries |-> NoEntries]
                       ELSE NoInode]
    /\ sb_next_ino = root_ino + 1
    /\ file_handles = [fh \in Fhs |-> NoHandle]
    /\ next_fh = 1
    /\ tasks = [t \in TaskIds |-> Idle]
    /\ ca = [s \in StoreIds |-> {}]
    /\ mutable = [s \in StoreIds |-> {}]
    /\ files = <<>>
    /\ objs = <<>>
    /\ io_fail = {}
    /\ wrote = {}
    /\ CatTables

EngMkNode == \E p \in Parents, n \in Names, k \in {"Directory", "Symlink"} :
                EngStep(MkNode(p, n, k))
EngCreateAlloc == \E t \in TaskIds, p \in Parents, n \in CreateNames :
                     EngStep(CreateAlloc(t, p, n))
EngCreateCommit == \E t \in TaskIds : EngStep(CreateCommit(t))
EngOpen == \E i \in EngInos : EngStep(Open(i))
EngWriteStart == \E t \in TaskIds, fh \in Fhs, w \in Writes :
                    EngStep(WriteStart(t, fh, w[1], w[2]))
EngWrite == \E t \in TaskIds : EngStep(MutableFile_write(t))
EngReadStart == \E t \in TaskIds, fh \in Fhs, r \in Reads :
                   EngStep(ReadStart(t, fh, r[1], r[2]))
EngReadMutable == \E t \in TaskIds : EngStep(MutableFile_read(t))
EngReadSticky == \E t \in TaskIds : EngStep(ReadSticky(t))
EngReadProbe == \E t \in TaskIds : EngStep(ReadProbe(t))
EngReadLatch == \E t \in TaskIds : EngStep(ReadLatch(t))
EngReleaseStart == \E t \in TaskIds, fh \in Fhs : EngStep(ReleaseStart(t, fh))
EngReleaseFinishA == \E t \in TaskIds : EngStep(ReleaseFinishA(t))
EngReleaseFinishB == \E t \in TaskIds : EngStep(ReleaseFinishB(t))
EngReleaseConvert == \E t \in TaskIds : EngStep(ReleaseConvert(t))
EngFinalizeStart == \E t \in TaskIds, n \in Names : EngStep(FinalizeStart(t, n))
EngFinalizeOpen == \E t \in TaskIds : EngStep(FinalizeOpen(t))
EngFinalizeFinishA == \E t \in TaskIds : EngStep(FinalizeFinishA(t))
EngFinalizeFinishB == \E t \in TaskIds : EngStep(FinalizeFinishB(t))
EngFinalizeCommit == \E t \in TaskIds : EngStep(FinalizeCommit(t))
EngReply == \E t \in TaskIds : EngStep(Reply(t))

Next ==
    \/ EngMkNode \/ EngCreateAlloc \/ EngCreateCommit \/ EngOpen
    \/ EngWriteStart \/ EngWrite
    \/ EngReadStart \/ EngReadMutable \/ EngReadSticky \/ EngReadProbe \/ EngReadLatch
    \/ EngReleaseStart \/ EngReleaseFinishA \/ EngReleaseFinishB \/ EngReleaseConvert
    \/ EngFinalizeStart \/ EngFinalizeOpen \/ EngFinalizeFinishA
    \/ EngFinalizeFinishB \/ EngFinalizeCommit
    \/ EngReply

Spec == EngInit /\ [][Next]_vars

(***************************************************************************)
(*   READS OF AN IMMUTABLE FILE OVER STORES THAT GAIN AND LOSE ITS BLOB    *)
(***************************************************************************)
\* the bytes of the immutable file of the mounted superblock, and its hash
Blob == <<1, 2>>
BlobHash == Hash_hash(Blob).hash
BlobIno == root_ino + 1

\* a superblock loaded with one immutable file; any of the stores hold its
\* blob (store s in file s), at most one store fails its reads
ReadInit ==
    /\ superblock = [i \in EngInos |->
                       IF i = root_ino
                       THEN [kind |-> "Directory",
                             entries |-> [NoEntries EXCEPT !["a"] = BlobIno]]
                       ELSE IF i = BlobIno
                       THEN [kind |-> "RegularFile", length |-> Len(Blob),
                             hash |-> BlobHash]
                       ELSE NoInode]
    /\ sb_next_ino = BlobIno + 1
    /\ file_handles = [fh \in Fhs |-> NoHandle]
    /\ next_fh = 1
    /\ tasks = [t \in TaskIds |-> Idle]
    /\ \E holders \in SUBSET StoreIds :
          ca = [s \in StoreIds |-> IF s \in holders THEN {<<BlobHash, s>>} ELSE {}]
    /\ mutable = [s \in StoreIds |-> {}]
    /\ files = [s \in StoreIds |-> Blob]
    /\ objs = <<>>
    /\ \E bad \in SUBSET StoreIds : Cardinality(bad) <= 1 /\ io_fail = bad
    /\ wrote = {}
    /\ CatTables

\* a read in flight no longer counts s among the stores that held the blob
\* all along
forget_held(k, s) ==
    IF k.op = "read" /\ "held" \in DOMAIN k
    THEN [k EXCEPT !.held = @ \ {s}]
    ELSE k

\* LocalStore::add puts the blob into store s
StoreGain(s) ==
    /\ ~has(s, BlobHash)
    /\ ca' = [ca EXCEPT ![s] = @ \cup {<<BlobHash, s>>}]
    /\ UNCHANGED <<engVars, mutable, files, objs, io_fail, wrote>>

\* the blob is removed from store s behind the engine's back
StoreLose(s) ==
    /\ has(s, BlobHash)
    /\ ca' = [ca EXCEPT ![s] = {e \in @ : e[1] # BlobHash}]
    /\ tasks' = [t \in TaskIds |-> forget_held(tasks[t], s)]
    /\ UNCHANGED <<superblock, sb_next_ino, file_handles, next_fh,
                   mutable, files, objs, io_fail, wrote>>

RdStoreGain == \E s \in StoreIds : EngStep(StoreGain(s))
RdStoreLose == \E s \in StoreIds : EngStep(StoreLose(s))

ReadNext ==
    \/ EngOpen \/ EngReadStart \/ EngReadSticky \/ EngReadProbe \/ EngReadLatch
    \/ EngReleaseStart \/ EngReply
    \/ RdStoreGain \/ RdStoreLose

SpecRead == ReadInit /\ [][ReadNext]_vars

\* the reads of an immutable file that ended, and what they found
ReadsDone == {t \in TaskIds : tasks[t].op = "read" /\ tasks[t].pc = "done"
                              /\ "log" \in DOMAIN tasks[t].res}
Probed(t) == tasks[t].res.log
LastAns(t) == Probed(t)[Len(Probed(t))]

(* C4: a read on a handle whose slot is empty asks the stores in list order,
   goes on to the next store only after NoSuchHash, fails with ENOMEDIUM
   exactly when every store answered NoSuchHash, and after the first store
   that answers with bytes it either returns those bytes and sets the slot
   of the handle to that store, or, the handle having left the table in the
   meantime, fails with BadFileHandle. *)
C4_ProbeOrder ==
    \A t \in ReadsDone :
        tasks[t].res.sticky = 0 =>
            /\ \A i \in 1 .. Len(Probed(t)) : Probed(t)[i].store = i
            /\ \A i \in 1 .. Len(Probed(t)) - 1 : Probed(t)[i].ans = "NoSuchHash"
            /\ tasks[t].res.kind = "ENOMEDIUM"
                  <=> (Len(Probed(t)) = Len(StoreUrls) /\ LastAns(t).ans = "NoSuchHash")
            /\ LastAns(t).ans = "data" =>
                  IF tasks[t].res.kind = "data"
                  THEN tasks[t].res.bytes =
                          PRead(Blob, tasks[t].res.offset, tasks[t].res.size)
                  ELSE /\ tasks[t].res.kind = "BadFileHandle"
                       /\ file_handles[tasks[t].res.fh] = NoHandle
            /\ LastAns(t).ans \notin {"data", "NoSuchHash"} => tasks[t].res.kind = "EIO"

C4_Latches ==
    \A t \in TaskIds :
        (/\ tasks[t].op = "read" /\ tasks[t].pc = "latch"
         /\ tasks'[t].pc = "done" /\ tasks'[t].res.kind = "data")
        => file_handles'[tasks[t].fh].store = tasks[t].log[Len(tasks[t].log)].store

C4_ProbeAndLatch == []C4_ProbeOrder /\ [][C4_Latches]_vars

\* C4 as stated: the first store that answers with bytes always ends the
\* read with those bytes
C4_FirstSuccessReturns ==
    \A t \in ReadsDone :
        (tasks[t].res.sticky = 0 /\ LastAns(t).ans = "data")
        => tasks[t].res.kind = "data"

C4_Witness ==
    \E t \in ReadsDone :
        /\ tasks[t].res.sticky = 0
        /\ tasks[t].res.kind = "data"
        /\ Len(Probed(t)) = 2
        /\ Probed(t)[1].ans = "NoSuchHash"
        /\ file_handles[tasks[t].res.fh] # NoHandle
        /\ file_handles[tasks[t].res.fh].store = 2

(* C5: once a read of a handle has returned bytes from store s, every read
   of that handle that starts later calls get on s and on no other store. *)
C5_OnlyStickyStore ==
    /\ \A t \in TaskIds :
          (tasks[t].op = "read" /\ tasks[t].pc \in {"sticky", "probe", "latch"})
          => \A s \in tasks[t].prior :
                \A i \in 1 .. Len(tasks[t].log) : tasks[t].log[i].store = s
    /\ \A t \in ReadsDone :
          \A s \in tasks[t].res.prior :
             \A i \in 1 .. Len(Probed(t)) : Probed(t)[i].store = s

(* C6: a read of an immutable file that fails with NoSuchHash (ENOMEDIUM)
   found the blob missing where it looked: on a handle whose slot is empty
   no store held the blob during the whole read, on a handle whose slot is
   set the store of the slot did not hold it during the whole read, whatever
   the other stores hold. *)
C6_NoSuchHashMeansMissing ==
    \A t \in ReadsDone :
        tasks[t].res.kind = "ENOMEDIUM" =>
            IF tasks[t].res.sticky = 0
            THEN tasks[t].res.held = {}
            ELSE tasks[t].res.sticky \notin tasks[t].res.held

\* C6 as stated: also on a handle whose slot is set, NoSuchHash means that
\* no store held the blob
C6_NoStoreHolds ==
    \A t \in ReadsDone :
        tasks[t].res.kind = "ENOMEDIUM" => tasks[t].res.held = {}

C6_Witness ==
    \E t \in ReadsDone :
        /\ tasks[t].res.kind = "ENOMEDIUM"
        /\ tasks[t].res.sticky # 0
        /\ tasks[t].res.held # {}

(***************************************************************************)
(*                 PROPERTIES OF THE ENGINE (Spec)                          *)
(***************************************************************************)
MutableInos == {i \in EngInos : superblock[i].kind = "MutableFile"}
ImmutableInos == {i \in EngInos : superblock[i].kind = "RegularFile"}

(* C2: in every state, a blob that a store holds under the hash of an
   immutable file has the length the inode records and digests to that
   hash, whatever writes were interleaved with finish. *)
C2_BlobMatchesInode ==
    \A i \in ImmutableInos : \A s \in StoreIds :
        has(s, superblock[i].hash) =>
            Hash_hash(files[CaFile(s, superblock[i].hash)]) =
                [len |-> superblock[i].length, hash |-> superblock[i].hash]

(* C3: a read(h, off, n) of a handle that is in the table, made when the
   last write to those bytes was a successful write(h, off, data) of n
   bytes, returns data. *)
C3_ReadReturnsWritten ==
    \A t \in TaskIds :
        (/\ tasks[t].op = "read" /\ tasks[t].pc = "done"
         /\ "expect" \in DOMAIN tasks[t].res
         /\ tasks[t].res.expect # {}
         /\ file_handles[tasks[t].res.fh] # NoHandle)
        => /\ tasks[t].res.kind = "data"
           /\ tasks[t].res.bytes \in tasks[t].res.expect

\* the step of task t is a step of a release
ReleaseStep(t) ==
    /\ tasks'[t] # tasks[t]
    /\ tasks[t].op = "release" \/ (tasks[t] = Idle /\ tasks'[t].op = "release")

(* C7: a step of release changes a mutable-file inode only at the end of
   the release of a handle for writing (the handle create returned), and
   then makes it an immutable file; the release of any other handle leaves
   the inode a mutable file with the same id. *)
C7_OnlyWriterReleaseConverts ==
    [][\A t \in TaskIds : ReleaseStep(t) =>
          \A i \in MutableInos :
              superblock'[i] # superblock[i] =>
                  /\ tasks[t].pc = "convert"
                  /\ tasks[t].ino = i
                  /\ tasks[t].for_writing
                  /\ superblock'[i].kind = "RegularFile"]_vars

\* C7 as stated: no step of release changes a mutable-file inode
C7_ReleaseNeverConverts ==
    [][\A t \in TaskIds : ReleaseStep(t) =>
          \A i \in MutableInos : superblock'[i] = superblock[i]]_vars

C7_Witness ==
    \E t, u \in TaskIds :
        /\ tasks[t].op = "release" /\ tasks[t].pc = "done"
        /\ tasks[t].res.kind = "ok" /\ ~tasks[t].res.for_writing
        /\ tasks[t].res.was.kind = "MutableFile"
        /\ superblock[tasks[t].res.ino] = tasks[t].res.was
        /\ tasks[u].op = "release" /\ tasks[u].pc = "convert"

(* C8: when a Finalize request has converted a mutable file, the inode is
   an immutable file of the length the catalog held when the request looked
   it up and of the hash of the bytes written to the file, and the store
   that held the mutable file holds exactly those bytes under that hash. *)
C8_FinalizeConverts ==
    \A t \in TaskIds :
        (/\ tasks[t].op = "Finalize" /\ tasks[t].pc = "done"
         /\ tasks[t].res.kind = "ok" /\ tasks[t].res.converted)
        => LET r == tasks[t].res
               n == superblock[r.ino]
           IN /\ n.kind = "RegularFile"
              /\ n.length = r.length
              /\ n.hash = Hash_hash(r.written).hash
              /\ has(r.store, n.hash)
              /\ files[CaFile(r.store, n.hash)] = r.written

(* C9: an inode never changes kind, except that a mutable file may become
   an immutable file; an immutable file keeps its hash and its length. *)
C9_KindIsStable ==
    [][\A i \in EngInos :
          superblock[i] # NoInode =>
              /\ \/ superblock'[i].kind = superblock[i].kind
                 \/ /\ superblock[i].kind = "MutableFile"
                    /\ superblock'[i].kind = "RegularFile"
              /\ superblock[i].kind = "RegularFile" => superblock'[i] = superblock[i]
      ]_vars

C9_Witness ==
    \E t \in TaskIds :
        /\ tasks[t].op \in {"release", "Finalize"} /\ tasks[t].pc = "done"
        /\ "ino" \in DOMAIN tasks[t].res
        /\ tasks[t].res.ino \in ImmutableInos

(* C10: in every state, for every mutable-file inode exactly one store has
   the file mutable/<id> that open_file(id) opens. *)
C10_OneStoreOwns ==
    \A i \in MutableInos :
        Cardinality({s \in StoreIds : superblock[i].id \in mutable[s]}) = 1

(***************************************************************************)
(*   THE LOCAL STORE ALONE  (src/src/local_store.rs): create_file,         *)
(*   open_file, keep, write, finish and Drop on the MutableFile objects    *)
(*   of the stores.  In this specification objs is the sequence of the     *)
(*   MutableFile objects made so far, several of which may name one        *)
(*   mutable/<id>.                                                         *)
(***************************************************************************)
\* the mutable/<id> files create_file makes, and the MutableFile objects
MaxStoreFiles == 2
MaxObjs == 3

StoreFileIds == 1 .. MaxStoreFiles
ObjIds == 1 .. MaxObjs
StoreWrites == {<<0, <<1>>>>, <<0, <<2>>>>}

\* does a ca/ entry of store s hold the file that was mutable/<id>
InCa(c, s, id) == \E e \in c[s] : e[2] = id

\* struct MutableFile as create_file and open_file build it; from, pc, buf,
\* hash, exists, fin and dropped record where the object came from, how far
\* its finish() has run and what it saw, and whether it was dropped
NewMutableFile(s, id, keep, from) ==
    [store |-> s, id |-> id, file |-> TRUE, keep |-> keep, from |-> from,
     pc |-> "idle", buf |-> <<>>, hash |-> <<>>, exists |-> FALSE,
     fin |-> "none", dropped |-> FALSE]

\* a finish that discards the temporary whether or not ca/<hash> exists
finish_step_discard(c, m, s, id, hash, exists) ==
    IF id \notin m[s] THEN [ok |-> FALSE, ca |-> c, mutable |-> m]
    ELSE [ok |-> TRUE, ca |-> c, mutable |-> [m EXCEPT ![s] = @ \ {id}]]

\* MutableFile::finish after final_path.exists() answered: remove_file of
\* the temporary when it did, else rename of the temporary onto ca/<hash>,
\* which replaces a file that appeared there meanwhile; either fails when
\* mutable/<id> is gone
finish_step(c, m, s, id, hash, exists) ==
    IF id \notin m[s] THEN [ok |-> FALSE, ca |-> c, mutable |-> m]
    ELSE IF exists
    THEN [ok |-> TRUE, ca |-> c, mutable |-> [m EXCEPT ![s] = @ \ {id}]]
    ELSE [ok |-> TRUE,
          ca |-> [c EXCEPT ![s] = {e \in @ : e[1] # hash} \cup {<<hash, id>>}],
          mutable |-> [m EXCEPT ![s] = @ \ {id}]]

StoreStep(A) == A /\ UNCHANGED <<catVars, engVars, io_fail, wrote>>

\* LocalStore::create_file: create_new of mutable/<id> under a fresh id
StCreate(s) ==
    /\ Len(files) < MaxStoreFiles
    /\ Len(objs) < MaxObjs
    /\ files' = Append(files, <<>>)
    /\ mutable' = [mutable EXCEPT ![s] = @ \cup {Len(files) + 1}]
    /\ objs' = Append(objs, NewMutableFile(s, Len(files) + 1, FALSE, "create"))
    /\ UNCHANGED ca

\* LocalStore::open_file: None unless mutable/<id> exists
StOpen(s, id) ==
    /\ Len(objs) < MaxObjs
    /\ id \in mutable[s]
    /\ objs' = Append(objs, NewMutableFile(s, id, TRUE, "open"))
    /\ UNCHANGED <<ca, mutable, files>>

\* the objects a caller still owns and is not inside a call of
Usable(o) == o \in 1 .. Len(objs) /\ ~objs[o].dropped /\ objs[o].pc = "idle"

\* MutableFile::keep
StKeep(o) ==
    /\ Usable(o)
    /\ ~objs[o].keep
    /\ objs' = [objs EXCEPT ![o].keep = TRUE]
    /\ UNCHANGED <<ca, mutable, files>>

\* MutableFile::write through the object's descriptor, which follows the
\* file wherever its name went
StWrite(o, offset, data) ==
    /\ Usable(o)
    /\ objs[o].file
    /\ files' = [files EXCEPT ![objs[o].id] = PWrite(@, offset, data)]
    /\ UNCHANGED <<ca, mutable, objs>>

\* MutableFile::finish: lock, take the file, read it to the end, hash it
StFinishRead(o) ==
    /\ Usable(o)
    /\ objs[o].file
    /\ objs' = [objs EXCEPT ![o].file = FALSE, ![o].pc = "hashed",
                            ![o].buf = files[objs[o].id],
                            ![o].hash = Hash_hash(files[objs[o].id]).hash]
    /\ UNCHANGED <<ca, mutable, files>>

\* MutableFile::finish: final_path.exists()
StFinishCheck(o) ==
    /\ o \in 1 .. Len(objs)
    /\ objs[o].pc = "hashed"
    /\ objs' = [objs EXCEPT ![o].pc = "checked",
                            ![o].exists = has(objs[o].store, objs[o].hash)]
    /\ UNCHANGED <<ca, mutable, files>>

\* MutableFile::finish: remove_file or rename, then Ok((len, hash)) or the
\* error of the file system
StFinishPromote(o) ==
    LET h == objs[o]
        r == finish_step(ca, mutable, h.store, h.id, h.hash, h.exists)
    IN /\ o \in 1 .. Len(objs)
       /\ h.pc = "checked"
       /\ ca' = r.ca
       /\ mutable' = r.mutable
       /\ objs' = [objs EXCEPT ![o].pc = "idle",
                               ![o].fin = IF r.ok THEN "ok" ELSE "StorageError"]
       /\ UNCHANGED files

\* impl Drop for MutableFile
StDrop(o) ==
    /\ Usable(o)
    /\ mutable' = drop_file(mutable, objs[o].store, objs[o].id, objs[o].keep)
    /\ objs' = [objs EXCEPT ![o].dropped = TRUE]
    /\ UNCHANGED <<ca, files>>

StoreInit ==
    /\ ca = [s \in StoreIds |-> {}]
    /\ mutable = [s \in StoreIds |-> {}]
    /\ files = <<>>
    /\ objs = <<>>
    /\ io_fail = {}
    /\ wrote = {}
    /\ CatTables
    /\ superblock = <<>> /\ sb_next_ino = 0 /\ file_handles = <<>>
    /\ next_fh = 0 /\ tasks = <<>>

StoreCreate == \E s \in StoreIds : StoreStep(StCreate(s))
StoreOpen == \E s \in StoreIds, id \in StoreFileIds : StoreStep(StOpen(s, id))
StoreKeep == \E o \in ObjIds : StoreStep(StKeep(o))
StoreWrite == \E o \in ObjIds, w \in StoreWrites : StoreStep(StWrite(o, w[1], w[2]))
StoreFinishRead == \E o \in ObjIds : StoreStep(StFinishRead(o))
StoreFinishCheck == \E o \in ObjIds : StoreStep(StFinishCheck(o))
StoreFinishPromote == \E o \in ObjIds : StoreStep(StFinishPromote(o))
StoreDrop == \E o \in ObjIds : StoreStep(StDrop(o))

StoreNext ==
    \/ StoreCreate \/ StoreOpen \/ StoreKeep \/ StoreWrite
    \/ StoreFinishRead \/ StoreFinishCheck \/ StoreFinishPromote \/ StoreDrop

SpecStore == StoreInit /\ [][StoreNext]_vars

\* the Drop of object o happens in this step
DropStep(o) == o \in 1 .. Len(objs) /\ ~objs[o].dropped /\ objs'[o].dropped

\* no finish() on mutable/<id> of the store has promoted or removed it
Unfinished(s, id) ==
    \A p \in 1 .. Len(objs) :
        objs[p].store = s /\ objs[p].id = id => objs[p].fin # "ok"

(***************************************************************************)
(* C11.  A MutableFile from create_file that is dropped without keep()     *)
(* leaves no mutable/<id>, and no ca/ file either provided it was never    *)
(* finished; dropped after keep() and never finished it leaves its         *)
(* mutable/<id> in place and nothing under ca/; dropping an object from    *)
(* open_file removes no file.                                              *)
(***************************************************************************)
C11_DropStep ==
    \A o \in ObjIds : DropStep(o) =>
        LET h == objs[o]
        IN /\ (h.from = "create" /\ ~h.keep) =>
                  /\ h.id \notin mutable'[h.store]
                  /\ Unfinished(h.store, h.id) => ~InCa(ca', h.store, h.id)
           /\ (h.from = "create" /\ h.keep /\ Unfinished(h.store, h.id)) =>
                  /\ h.id \in mutable'[h.store]
                  /\ ~InCa(ca', h.store, h.id)
           /\ h.from = "open" => mutable' = mutable /\ ca' = ca

C11_DropLeaves == [][C11_DropStep]_vars

\* C11 as stated: whatever was done with the file before the drop
C11_DropStepAsStated ==
    \A o \in ObjIds : DropStep(o) =>
        LET h == objs[o]
        IN /\ (h.from = "create" /\ ~h.keep) =>
                  /\ h.id \notin mutable'[h.store]
                  /\ ~InCa(ca', h.store, h.id)
           /\ (h.from = "create" /\ h.keep) =>
                  /\ h.id \in mutable'[h.store]
                  /\ ~InCa(ca', h.store, h.id)
           /\ h.from = "open" => mutable' = mutable /\ ca' = ca

C11_DropLeavesAsStated == [][C11_DropStepAsStated]_vars

\* all three drops happened: a created file dropped unkept, another dropped
\* kept and still there, and an opened one dropped while its file remains
C11_Witness ==
    /\ \E o \in 1 .. Len(objs) :
          /\ objs[o].dropped /\ objs[o].from = "create" /\ ~objs[o].keep
          /\ objs[o].id \notin mutable[objs[o].store]
    /\ \E o \in 1 .. Len(objs) :
          /\ objs[o].dropped /\ objs[o].from = "create" /\ objs[o].keep
          /\ objs[o].id \in mutable[objs[o].store]
          /\ \E p \in 1 .. Len(objs) :
                objs[p].dropped /\ objs[p].from = "open" /\ objs[p].id = objs[o].id


\* the pairs of finishes C12 is about: two objects over two different
\* mutable files of one store, both finished with Ok, that read equal bytes
FinishedTwins ==
    {p \in (1 .. Len(objs)) \X (1 .. Len(objs)) :
        /\ objs[p[1]].id # objs[p[2]].id
        /\ objs[p[1]].store = objs[p[2]].store
        /\ objs[p[1]].fin = "ok" /\ objs[p[2]].fin = "ok"
        /\ objs[p[1]].buf = objs[p[2]].buf}

(***************************************************************************)
(* C12.  Two mutable files of one LocalStore that hold identical bytes     *)
(* when finished, one after the other or concurrently, get the same hash,  *)
(* and afterwards the store has exactly one ca/<hash> entry and neither    *)
(* mutable/<id>.                                                           *)
(***************************************************************************)
C12_FinishDeduplicates ==
    \A p \in FinishedTwins :
        LET a == objs[p[1]]
            b == objs[p[2]]
        IN /\ a.hash = b.hash
           /\ Cardinality({e \in ca[a.store] : e[1] = a.hash}) = 1
           /\ a.id \notin mutable[a.store]
           /\ b.id \notin mutable[a.store]

\* two files holding <<1>> finished concurrently: neither finish saw the
\* other's ca/<hash>, so both renamed
C12_Witness ==
    \E p \in FinishedTwins :
        /\ objs[p[1]].buf = <<1>>
        /\ ~objs[p[1]].exists /\ ~objs[p[2]].exists


(***************************************************************************)
(*        CLAIMS ABOUT THE CATALOG OPERATIONS  (SpecCatalog)               *)
(***************************************************************************)
\* the (directory, name) pairs that bind an inode
Bound == {e \in Inos \X Names : get_dir_entry(Begin, e[1], e[2]) # 0}

(***************************************************************************)
(* C13.  rename(d, n, d, n) with n bound in d succeeds and leaves every    *)
(* directory entry and every inode row, link counts included, as it was.   *)
(***************************************************************************)
C13_SameNameRenameIsNoOp ==
    \A e \in Bound :
        LET T == rename_txn(e[1], e[2], e[1], e[2])
        IN T.err = "ok" /\ T.ent = DirEntries /\ T.ino = Inodes


\* the renames C14 is about: a bound source, an unbound target
FreshRenames == {r \in Bound \X (Inos \X Names) : r[2] \notin Bound}

(***************************************************************************)
(* C14.  After a successful rename of a bound (fromDir, x) to an unbound   *)
(* (toDir, y), lookup(fromDir, x) fails NoSuchEntry, lookup(toDir, y)      *)
(* gives the inode x bound, its row (kind, hash, link count) is as before, *)
(* and every other directory entry is unchanged.                           *)
(***************************************************************************)
C14_RenameMovesBinding ==
    \A r \in FreshRenames :
        LET from == r[1]
            to == r[2]
            ino == get_dir_entry(Begin, from[1], from[2])
            T == rename_txn(from[1], from[2], to[1], to[2])
        IN T.err = "ok" =>
             /\ lookup(T, from[1], from[2]) = "NoSuchEntry"
             /\ lookup(T, to[1], to[2]) = "ok"
             /\ get_dir_entry(T, to[1], to[2]) = ino
             /\ T.ino[ino] = Inodes[ino]
             /\ {e \in T.ent : <<e.dir, e.name>> # to}
                  = {e \in DirEntries : <<e.dir, e.name>> # from}

\* a finalised file in the root can be renamed into a directory, and
\* a rename within the root succeeds as well
C14_Witness ==
    /\ \E r \in FreshRenames :
          /\ r[1][1] # r[2][1]
          /\ Inodes[r[2][1]].type = TDirectory
          /\ Inodes[get_dir_entry(Begin, r[1][1], r[1][2])].type = TImmutableRegular
          /\ rename_txn(r[1][1], r[1][2], r[2][1], r[2][2]).err = "ok"
    /\ \E r \in FreshRenames :
          /\ r[1][1] = r[2][1]
          /\ rename_txn(r[1][1], r[1][2], r[2][1], r[2][2]).err = "ok"


\* deleting the row of ino would orphan the entries of a directory
HasEntries(ino) == \E e \in DirEntries : e.dir = ino

\* the (directory, name) pairs of the rows of DirEntries
TakenNames == {<<e.dir, e.name>> : e \in DirEntries}

(***************************************************************************)
(* C16.  An exclusive create_file (mkdir, symlink, create) on a name that  *)
(* is bound in the parent fails EntryExists, and the catalog it leaves is  *)
(* the one it found: same inode rows, same entries, same next inode.       *)
(***************************************************************************)
C16_ExclusiveCreateFails ==
    \A e \in TakenNames, info \in NewFileInfos :
        LET T == create_file_txn(e[1], e[2], TRUE, info)
        IN next_ino \in Inos =>
             /\ T.err = "EntryExists"
             /\ Committed(T).ino = Inodes
             /\ Committed(T).ent = DirEntries
             /\ Committed(T).nxt = next_ino

\* a bound name on which mkdir fails after its transaction inserted the
\* new row that the rollback then discards
C16_Witness ==
    \E e \in TakenNames, info \in NewFileInfos :
        LET T == create_file_txn(e[1], e[2], TRUE, info)
        IN /\ info.file_type = TDirectory
           /\ T.err = "EntryExists"
           /\ T.ino[next_ino] # NoRow /\ Inodes[next_ino] = NoRow


\* the names bound to a directory that still has entries
NonEmptyDirNames ==
    {e \in TakenNames :
        LET ino == get_dir_entry(Begin, e[1], e[2])
        IN Inodes[ino].type = TDirectory /\ HasEntries(ino)}

(***************************************************************************)
(* C17.  remove_file on a name bound to a directory that still has         *)
(* entries fails NotEmpty and leaves every entry and every inode row, the  *)
(* directory's link count included, as it was.                             *)
(***************************************************************************)
C17_RmdirNonEmptyFails ==
    \A e \in NonEmptyDirNames :
        LET T == unlink_file(Begin, e[1], e[2])
        IN /\ T.err = "NotEmpty"
           /\ Committed(T).ino = Inodes
           /\ Committed(T).ent = DirEntries


(***************************************************************************)
(*   THE NAMESPACE OF THE MOUNTED FILE SYSTEM  (src/src/fusefs.rs on the   *)
(*   inodes of src/src/fs.rs): mkdir, symlink, unlink, rmdir and rename    *)
(*   as Filesystem answers them.  An inode of this tree has no link count  *)
(*   (FileAttr reports nlink 1) and link is not supported.                 *)
(***************************************************************************)
MaxTreeIno == 4
TreeInos == 1 .. MaxTreeIno

\* the result of a request: the error it replies, and the inodes it leaves
Answer(err, sb) == [err |-> err, sb |-> sb]

\* get_inode(parent)?, get_directory_mut()?
directory_error(parent) ==
    IF get_inode(parent) = NoInode THEN "NoSuchInode"
    ELSE IF get_inode(parent).kind # "Directory" THEN "NotDirectory"
    ELSE "ok"

\* Filesystem::mkdir, Filesystem::symlink: the inode is added only after
\* check_no_entry
Filesystem_mknode(parent, name, kind) ==
    IF entry_error(parent, name) # "ok"
    THEN Answer(entry_error(parent, name), superblock)
    ELSE Answer("ok", add_inode(parent, name,
                        IF kind = "Directory"
                        THEN [kind |-> "Directory", entries |-> NoEntries]
                        ELSE [kind |-> "Symlink"]))

\* Filesystem::unlink: the entry is removed, the inode stays in the superblock
Filesystem_unlink(parent, name) ==
    IF directory_error(parent) # "ok" THEN Answer(directory_error(parent), superblock)
    ELSE IF get_inode(parent).entries[name] = 0 THEN Answer("ENOENT", superblock)
    ELSE IF get_inode(get_inode(parent).entries[name]).kind = "Directory"
    THEN Answer("EISDIR", superblock)
    ELSE Answer("ok", [superblock EXCEPT ![parent].entries[name] = 0])

\* Filesystem::rmdir
Filesystem_rmdir(parent, name) ==
    IF directory_error(parent) # "ok" THEN Answer(directory_error(parent), superblock)
    ELSE IF get_inode(parent).entries[name] = 0 THEN Answer("ENOENT", superblock)
    ELSE LET child == get_inode(get_inode(parent).entries[name])
         IN IF child.kind # "Directory" THEN Answer("ENOTDIR", superblock)
            ELSE IF child.entries # NoEntries THEN Answer("ENOTEMPTY", superblock)
            ELSE Answer("ok", [superblock EXCEPT ![parent].entries[name] = 0])

\* Filesystem::rename: check_no_entry on the target, then the entry moves
Filesystem_rename(parent_ino, name, new_parent_ino, new_name) ==
    IF directory_error(parent_ino) # "ok"
    THEN Answer(directory_error(parent_ino), superblock)
    ELSE IF get_inode(parent_ino).entries[name] = 0
    THEN Answer("NoSuchEntry", superblock)
    ELSE IF entry_error(new_parent_ino, new_name) # "ok"
    THEN Answer(entry_error(new_parent_ino, new_name), superblock)
    ELSE Answer("ok", [superblock EXCEPT
                         ![parent_ino].entries[name] = 0,
                         ![new_parent_ino].entries[new_name] =
                             get_inode(parent_ino).entries[name]])

\* a request that replies an error leaves the state as it was
TreeStep(ans, n) ==
    /\ ans.err = "ok"
    /\ superblock' = ans.sb
    /\ sb_next_ino' = sb_next_ino + n
    /\ UNCHANGED <<catVars, storeVars, file_handles, next_fh, tasks>>

TreeInit ==
    /\ superblock = [i \in TreeInos |->
                       IF i = root_ino
                       THEN [kind |-> "Directory", entries |-> NoEntries]
                       ELSE NoInode]
    /\ sb_next_ino = root_ino + 1
    /\ file_handles = <<>> /\ next_fh = 0 /\ tasks = <<>>
    /\ ca = <<>> /\ mutable = <<>> /\ files = <<>> /\ objs = <<>>
    /\ io_fail = {} /\ wrote = {}
    /\ CatTables

TreeMkNode == /\ alloc_inode <= MaxTreeIno
              /\ \E p \in TreeInos, n \in Names, k \in {"Directory", "Symlink"} :
                     TreeStep(Filesystem_mknode(p, n, k), 1)
TreeUnlink == \E p \in TreeInos, n \in Names : TreeStep(Filesystem_unlink(p, n), 0)
TreeRmdir == \E p \in TreeInos, n \in Names : TreeStep(Filesystem_rmdir(p, n), 0)
TreeRename == \E p \in TreeInos, n \in Names, q \in TreeInos, m \in Names :
                  TreeStep(Filesystem_rename(p, n, q, m), 0)

TreeNext == TreeMkNode \/ TreeUnlink \/ TreeRmdir \/ TreeRename

SpecTree == TreeInit /\ [][TreeNext]_vars

\* the (directory, name) pairs that bind an inode of the tree
TreeBound ==
    {e \in TreeInos \X Names :
        /\ directory_error(e[1]) = "ok"
        /\ get_inode(e[1]).entries[e[2]] # 0}


\* Superblock::nr_inodes
nr_inodes(sb) == Cardinality({i \in DOMAIN sb : sb[i] # NoInode})

\* the inode a bound pair of the tree names
TreeChild(e) == get_inode(e[1]).entries[e[2]]

(***************************************************************************)
(* C15.  rename onto a name that is bound to a different inode succeeds    *)
(* and rebinds the name to the source inode.                               *)
(***************************************************************************)
C15_RenameReplaces ==
    \A e \in TreeBound, f \in TreeBound :
        TreeChild(e) # TreeChild(f) =>
            LET A == Filesystem_rename(e[1], e[2], f[1], f[2])
            IN /\ A.err = "ok"
               /\ A.sb[f[1]].entries[f[2]] = TreeChild(e)

(***************************************************************************)
(* C18.  When unlink or rmdir removes the entry that bound an inode, the   *)
(* inode is destroyed in the same step: it is no longer found and no       *)
(* longer counted among the inodes.                                        *)
(***************************************************************************)
C18_LastUnlinkDestroys ==
    \A e \in TreeBound :
        LET U == Filesystem_unlink(e[1], e[2])
            R == Filesystem_rmdir(e[1], e[2])
        IN /\ U.err = "ok" =>
                 /\ U.sb[TreeChild(e)] = NoInode
                 /\ nr_inodes(U.sb) = nr_inodes(superblock) - 1
           /\ R.err = "ok" =>
                 /\ R.sb[TreeChild(e)] = NoInode
                 /\ nr_inodes(R.sb) = nr_inodes(superblock) - 1


\* the inodes that a walk from the inodes of S reaches through DirEntries
RECURSIVE ReachableFrom(_)
ReachableFrom(S) ==
    LET more == S \cup {e.ino : e \in {x \in DirEntries : x.dir \in S}}
    IN IF more = S THEN S ELSE ReachableFrom(more)

(***************************************************************************)
(* C19.  The namespace is a tree rooted at the root inode: the directory   *)
(* and the child of every entry exist and the directory is a directory,    *)
(* no entry binds the root, every other directory is bound by exactly one  *)
(* entry, and every inode is reachable from the root (so no directory is   *)
(* its own ancestor).                                                      *)
(***************************************************************************)
C19_NamespaceIsTree ==
    /\ \A e \in DirEntries :
          /\ stat(Begin, e.ino) = "ok"
          /\ stat(Begin, e.dir) = "ok"
          /\ Inodes[e.dir].type = TDirectory
    /\ Bindings(root_ino) = 0
    /\ \A i \in Inos :
          (i # root_ino /\ Inodes[i] # NoRow /\ Inodes[i].type = TDirectory) =>
              Bindings(i) = 1
    /\ \A i \in Inos : Inodes[i] # NoRow => i \in ReachableFrom({root_ino})


(***************************************************************************)
(*   Filesystem::set_attributes  (src/src/fs_sqlite.rs)                    *)
(***************************************************************************)
\* an Option: {} is None, {v} is Some(v)
unwrap_or(opt, default) == IF opt = {} THEN default ELSE CHOOSE v \in opt : TRUE

\* the SetAttributes values set_attributes is called with
SetAttributesInputs ==
    {[length |-> l, perm |-> a[1], uid |-> a[2], gid |-> a[2],
      crtime |-> a[2], mtime |-> a[2]] :
        l \in {{}, {0}, {2}}, a \in {<<{}, {}>>, <<{1}, {}>>, <<{1}, {1}>>}}

\* a test that lets a length through for every kind of inode
is_mutable_regular_any(row) == TRUE

\* if let FileTypeInfo::MutableRegular { length, .. } = &mut st.file_type
is_mutable_regular(row) == row.type = TMutableRegular

\* Filesystem::set_attributes up to txn.commit()
set_attributes_txn(ino, attrs) ==
    IF stat(Begin, ino) # "ok" THEN Fail(Begin, "NoSuchInode")
    ELSE IF attrs.length # {} /\ ~is_mutable_regular(Inodes[ino])
    THEN Fail(Begin, "NotMutableFile")
    ELSE [Begin EXCEPT !.ino[ino] =
            [@ EXCEPT !.length = unwrap_or(attrs.length, @),
                      !.perm = unwrap_or(attrs.perm, @),
                      !.uid = unwrap_or(attrs.uid, @),
                      !.gid = unwrap_or(attrs.gid, @),
                      !.crtime = unwrap_or(attrs.crtime, @),
                      !.mtime = unwrap_or(attrs.mtime, @)]]

\* Filesystem::set_attributes
set_attributes(ino, attrs) == Commit(set_attributes_txn(ino, attrs))

CatSetAttributes ==
    \E i \in Inos, a \in SetAttributesInputs : CatStep(set_attributes(i, a))

AttrNext == CatCreate \/ CatSetAttributes

SpecAttributes == CatInit /\ [][AttrNext]_vars

\* the calls C20 is about: an inode that exists, attributes with a length
LengthCalls ==
    {c \in Inos \X SetAttributesInputs :
        stat(Begin, c[1]) = "ok" /\ c[2].length # {}}

MutableFile_len(id) == objs[id].len

\* the lengths update_length_at_least is called with
Lengths == 0 .. 2

\* an update that stores the length it is given
update_length_at_least_set(ino, length) ==
    IF stat(Begin, ino) # "ok" \/ Inodes[ino].type # TMutableRegular
    THEN Fail(Begin, "panic")
    ELSE [Begin EXCEPT !.ino[ino].length = length]

\* Filesystem::update_length_at_least up to txn.commit(): update Inodes set
\* length = max(?, length) where ino = ? and type = 1; assert_eq!(nr_updated, 1)
update_length_at_least_txn(ino, length) ==
    IF stat(Begin, ino) # "ok" \/ Inodes[ino].type # TMutableRegular
    THEN Fail(Begin, "panic")
    ELSE [Begin EXCEPT !.ino[ino].length = Max(length, @)]

\* Filesystem::update_length_at_least
update_length_at_least(ino, length) ==
    Commit(update_length_at_least_txn(ino, length))

\* create_file of a mutable file in the root directory of the catalog
LenCreate ==
    /\ RoomForEntry
    /\ \E n \in Names :
          CatStep(create_file(root_ino, n, TRUE,
                     [file_type |-> TMutableRegular, ptr |-> "m1", length |-> 0]))

LenUpdate == \E i \in Inos, n \in Lengths : CatStep(update_length_at_least(i, n))

LenCreateAlloc == \E t \in TaskIds, p \in Parents, n \in CreateNames :
                     EngStep(CreateAlloc(t, p, n))
LenCreateCommit == \E t \in TaskIds : EngStep(CreateCommit(t))
LenWriteStart == \E t \in TaskIds, fh \in Fhs, w \in Writes :
                    EngStep(WriteStart(t, fh, w[1], w[2]))
LenWrite == \E t \in TaskIds : EngStep(MutableFile_write(t))
LenReply == \E t \in TaskIds : EngStep(Reply(t))

LenNext ==
    \/ LenCreateAlloc \/ LenCreateCommit \/ LenWriteStart \/ LenWrite \/ LenReply
    \/ LenCreate \/ LenUpdate

SpecLength == EngInit /\ [][LenNext]_vars

\* the greatest offset + len over the successful writes to ino, 0 when there
\* were none.  Every write of the model is one byte long, so a write leaves
\* the history only when a later write covers the same byte.
HighWater(ino) ==
    LET ends == {w.offset + Len(w.data) : w \in {x \in wrote : x.ino = ino}}
    IN IF ends = {} THEN 0 ELSE CHOOSE e \in ends : \A f \in ends : f <= e

\* the rows of the mutable files of the catalog
MutableRows == {i \in Inos : Inodes[i] # NoRow /\ Inodes[i].type = TMutableRegular}

C21_SizeIsHighWater ==
    /\ \A i \in MutableInos :
          MutableFile_len(superblock[i].id) = HighWater(i)
    /\ \A i \in MutableRows, n \in Lengths :
          LET T == update_length_at_least_txn(i, n)
          IN /\ T.err = "ok"
             /\ T.ino[i] = [Inodes[i] EXCEPT !.length = Max(Inodes[i].length, n)]
             /\ \A j \in Inos \ {i} : T.ino[j] = Inodes[j]
             /\ T.ent = DirEntries

C21_NeverDecreases ==
    /\ \A i \in MutableInos :
          superblock'[i].kind = "MutableFile" =>
              MutableFile_len(superblock[i].id)' >= MutableFile_len(superblock[i].id)
    /\ \A i \in MutableRows : Inodes'[i].length >= Inodes[i].length

MaxPathLen == 3

\* the std::path::Component values of the paths: Normal(name) for the names
\* of the catalog, RootDir, CurDir and ParentDir
Components == Names \cup {"/", ".", ".."}

\* a test that takes every component for a name
IsNormal_any(c) == TRUE

\* if let Component::Normal(c) = component
IsNormal(c) == c \notin {"/", ".", ".."}

\* the sequences Path::components() yields: RootDir and CurDir come first
\* or not at all
Paths ==
    {p \in UNION {[1 .. n -> Components] : n \in 0 .. MaxPathLen} :
        \A i \in 2 .. Len(p) : p[i] \notin {"/", "."}}

\* the result of lookup_path: the inode, or the error
Found(ino) == [err |-> "ok", ino |-> ino]
NotFound(err) == [err |-> err, ino |-> 0]

\* the loop of lookup_path: cur_ino and the components still to walk; every
\* lookup is a transaction of its own on the tables T
RECURSIVE lookup_path_from(_, _, _)
lookup_path_from(T, cur_ino, components) ==
    IF components = <<>> THEN Found(cur_ino)
    ELSE IF ~IsNormal(Head(components)) THEN NotFound("BadPath")
    ELSE IF lookup(T, cur_ino, Head(components)) # "ok"
    THEN NotFound(lookup(T, cur_ino, Head(components)))
    ELSE lookup_path_from(T, get_dir_entry(T, cur_ino, Head(components)),
                          Tail(components))

\* Filesystem::lookup_path
Filesystem_lookup_path(path) == lookup_path_from(Begin, root_ino, path)

\* the path without its last component
Front(p) == SubSeq(p, 1, Len(p) - 1)

NormalPaths == {p \in Paths : \A i \in 1 .. Len(p) : p[i] \in Names}

\* the paths with a component that is not Normal, and the Normal components
\* before the first of them
OtherPaths == Paths \ NormalPaths
NormalPrefix(p) ==
    SubSeq(p, 1, (CHOOSE i \in 1 .. Len(p) :
                     p[i] \notin Names /\ \A j \in 1 .. i - 1 : p[j] \in Names) - 1)

\* lookup_path on a path of Normal components is lookup applied along it
WalksByLookup ==
    \A p \in NormalPaths :
        IF p = <<>> THEN Filesystem_lookup_path(p) = Found(root_ino)
        ELSE LET dir == Filesystem_lookup_path(Front(p))
                 name == p[Len(p)]
             IN Filesystem_lookup_path(p) =
                   IF dir.err # "ok" THEN dir
                   ELSE IF lookup(Begin, dir.ino, name) # "ok"
                   THEN NotFound(lookup(Begin, dir.ino, name))
                   ELSE Found(get_dir_entry(Begin, dir.ino, name))

(***************************************************************************)
(* C27.  lookup_path on a path of Normal components returns the inode that *)
(* lookup applied from the root along the components gives (the root for   *)
(* the empty path) and fails with the error of the first failing lookup.   *)
(* A path with a RootDir, CurDir or ParentDir component always fails: with *)
(* BadPath when the Normal components before it resolve, with the error of *)
(* the first failing lookup among them otherwise.                          *)
(***************************************************************************)
C27_LookupPath ==
    /\ WalksByLookup
    /\ \A p \in OtherPaths :
          LET before == Filesystem_lookup_path(NormalPrefix(p))
          IN Filesystem_lookup_path(p) =
                IF before.err = "ok" THEN NotFound("BadPath") ELSE before

\* C27 as stated: every path with a component that is not Normal fails BadPath
C27_OtherComponentIsBadPath ==
    /\ WalksByLookup
    /\ \A p \in OtherPaths : Filesystem_lookup_path(p) = NotFound("BadPath")

\* a file two directories below the root is found, a path that leaves a
\* bound directory by ".." is a BadPath, and one that names a missing entry
\* before its ".." fails with NoSuchEntry
C27_Witness ==
    /\ \E p \in NormalPaths :
          /\ Len(p) = 2
          /\ Filesystem_lookup_path(p).err = "ok"
          /\ Filesystem_lookup_path(p).ino \notin {root_ino, Filesystem_lookup_path(Front(p)).ino}
    /\ \E p \in OtherPaths :
          /\ Len(p) = 2 /\ p[2] = ".."
          /\ Filesystem_lookup_path(p) = NotFound("BadPath")
    /\ \E p \in OtherPaths :
          /\ Len(p) = 2 /\ p[2] = ".."
          /\ Filesystem_lookup_path(p) = NotFound("NoSuchEntry")

(***************************************************************************)
(*   THE CONTROL CHANNEL  (src/src/control.rs; open, read, write and       *)
(*   release of the control file in src/src/fusefs.rs).  In this           *)
(*   specification objs[fh] is the session that the open returning fh      *)
(*   spawned: its byte channel and its handle_message future.  The catalog *)
(*   holds two files from the start and changes only by Finalize.          *)
(***************************************************************************)
\* how many write requests are made on the control file, all handles
\* together
MaxCtlWrites == 2

\* the bytes written to the control file.  A byte of the model stands for a
\* run of bytes of the request text: the newline, the JSON text of one
\* request, or bytes that are no UTF-8 or not the JSON of a Request.
NL == [tag |-> "nl"]
RequestTexts ==
    {[tag |-> "Status", path |-> p] : p \in {<<"a">>, <<"b">>, <<"b", "a">>}}
    \cup {[tag |-> "Finalize", path |-> p] : p \in {<<"a">>, <<"b">>}}
    \cup {[tag |-> "Mirror", path |-> p, store |-> StoreUrls[Len(StoreUrls)]] :
             p \in {<<"a">>, <<"b", "a">>}}
CtlBytes ==
    RequestTexts \cup {NL, [tag |-> "other"]}

\* the data of the write requests on a control handle
CtlWrites ==
    {<<b>> : b \in CtlBytes} \cup {<<b, NL>> : b \in RequestTexts}
    \cup {<<[tag |-> "Status", path |-> <<"a">>], [tag |-> "other"], NL>>}

NoReq == [tag |-> "none"]
NoRes == [tag |-> "none"]

\* a parse that looks at the first request text of the line only
parse_request_lenient(line) ==
    IF Len(line) >= 1 /\ line[1].tag \in {"Status", "Mirror", "Finalize"}
    THEN line[1] ELSE NoReq

\* String::from_utf8(req) then serde_json::from_str::<Request>(&req): the
\* line must be the text of exactly one request
parse_request(line) ==
    IF \E i \in 1 .. Len(line) : line[i].tag = "other" THEN NoReq
    ELSE IF Len(line) = 1 /\ line[1].tag \in {"Status", "Mirror", "Finalize"}
    THEN line[1]
    ELSE NoReq

\* Response::Error { msg: err.to_string() } and the other responses
ErrorResponse(err) == [tag |-> "Error", msg |-> err]
StatusResponse(ino, info) == [tag |-> "Status", ino |-> ino, info |-> info]
FinalizeResponse == [tag |-> "Finalize"]

\* serde_json::to_string(&res): the response as a sequence of bytes, a byte
\* of the model standing for the text of one value of the response
to_string(res) ==
    CASE res.tag = "Error" -> <<"Error", res.msg>>
      [] res.tag = "Status" -> <<"Status", res.ino, res.info>>
      [] res.tag = "Finalize" -> <<"Finalize">>

\* the session an open of the control file spawns: the channel (chan: the
\* bytes sent and not yet received; tx, rx: the two ends are alive), the
\* future (pc, line, req, loc, res); sent, writes and changed are history
NewSession ==
    [chan |-> <<>>, tx |-> TRUE, rx |-> TRUE, pc |-> "recv", line |-> <<>>,
     req |-> NoReq, loc |-> <<>>, res |-> NoRes, sent |-> <<>>, writes |-> 0,
     changed |-> FALSE]

\* handle_message: the response is there, handle_inner has dropped rx
Respond(s, res) == [s EXCEPT !.pc = "done", !.res = res, !.rx = FALSE]

\* a handler that panicked: the future never yields a response
Panicked(s) == [s EXCEPT !.pc = "panicked", !.rx = FALSE]

\* FileType of a Stat, the stores of an immutable file still to be asked
status_info(row) ==
    CASE row.type = TMutableRegular ->
             [type |-> "mutable", length |-> row.length, id |-> row.ptr[2]]
      [] row.type = TDirectory -> [type |-> "directory"]
      [] row.type = TSymlink -> [type |-> "symlink"]

\* handle_status up to its first await: lookup_path and stat under the read
\* lock; an immutable file goes on to ask the stores
handle_status(s, path) ==
    LET at == Filesystem_lookup_path(path)
        row == Inodes[at.ino]
    IN IF at.err # "ok" THEN Respond(s, ErrorResponse(at.err))
       ELSE IF stat(Begin, at.ino) # "ok"
       THEN Respond(s, ErrorResponse(stat(Begin, at.ino)))
       ELSE IF row.type = TImmutableRegular
       THEN [s EXCEPT !.pc = "has",
                      !.loc = [ino |-> at.ino, length |-> row.length,
                               hash |-> row.ptr, next |-> 1, stores |-> <<>>]]
       ELSE Respond(s, StatusResponse(at.ino, status_info(row)))

\* handle_finalize up to its first await: only a mutable file is finalised
handle_finalize(s, path) ==
    LET at == Filesystem_lookup_path(path)
        row == Inodes[at.ino]
    IN IF at.err # "ok" THEN Respond(s, ErrorResponse(at.err))
       ELSE IF stat(Begin, at.ino) # "ok"
       THEN Respond(s, ErrorResponse(stat(Begin, at.ino)))
       ELSE IF row.type = TMutableRegular
       THEN [s EXCEPT !.pc = "open",
                      !.loc = [ino |-> at.ino, id |-> row.ptr[2],
                               length |-> row.length]]
       ELSE Respond(s, FinalizeResponse)

\* handle_mirror: unimplemented!()
handle_mirror(s, path, store) == Panicked(s)

\* handle_inner after the newline: parse the line and start the handler
handle_inner(s) ==
    LET req == parse_request(s.line)
        s1 == [s EXCEPT !.req = req]
    IN CASE req.tag = "none" -> Respond(s1, ErrorResponse("BadControlRequest"))
         [] req.tag = "Status" -> handle_status(s1, req.path)
         [] req.tag = "Mirror" -> handle_mirror(s1, req.path, req.store)
         [] req.tag = "Finalize" -> handle_finalize(s1, req.path)

\* what a step of a session may change besides the session
Placement == <<Inodes, DirEntries, next_ino, ca, mutable, files>>

\* the step of the session of fh leaves it as s; changed records whether
\* this or an earlier step of it changed the catalog or a store
SetSession(fh, s) ==
    objs' = [objs EXCEPT ![fh] =
                [s EXCEPT !.changed = @ \/ Placement' # Placement]]

CtlQuiet == UNCHANGED <<superblock, sb_next_ino, io_fail, wrote>>

\* the number of writes on the first n handles of the control file so far
RECURSIVE CtlSent(_)
CtlSent(n) == IF n = 0 THEN 0 ELSE objs[n].writes + CtlSent(n - 1)

\* Filesystem::open on CONTROL_INO: a channel, a spawned future, a handle
CtlOpen ==
    /\ next_fh <= MaxFh
    /\ file_handles' = [file_handles EXCEPT ![next_fh] = [kind |-> "Control"]]
    /\ next_fh' = next_fh + 1
    /\ objs' = Append(objs, NewSession)
    /\ UNCHANGED <<catVars, tasks, ca, mutable, files>>
    /\ CtlQuiet

\* Filesystem::write on a control handle: every byte is sent on tx, which
\* fails once the receiver was dropped
CtlWrite(fh, data) ==
    /\ file_handles[fh] # NoHandle
    /\ objs[fh].rx
    /\ CtlSent(Len(objs)) < MaxCtlWrites
    /\ objs' = [objs EXCEPT ![fh].chan = @ \o data, ![fh].sent = @ \o data,
                            ![fh].writes = @ + 1]
    /\ UNCHANGED <<catVars, file_handles, next_fh, tasks, ca, mutable, files>>
    /\ CtlQuiet

\* Filesystem::release on a control handle: the handle and its sender go
CtlRelease(fh) ==
    /\ file_handles[fh] # NoHandle
    /\ file_handles' = [file_handles EXCEPT ![fh] = NoHandle]
    /\ objs' = [objs EXCEPT ![fh].tx = FALSE]
    /\ UNCHANGED <<catVars, next_fh, tasks, ca, mutable, files>>
    /\ CtlQuiet

\* handle_inner, one turn of the loop on rx.recv(): a byte of the line, the
\* newline that ends it, or None when the channel is empty and closed
CtlRecv(fh) ==
    LET s == objs[fh]
    IN /\ fh \in 1 .. Len(objs)
       /\ s.pc = "recv"
       /\ UNCHANGED <<catVars, file_handles, next_fh, tasks, ca, mutable, files>>
       /\ CtlQuiet
       /\ IF s.chan # <<>>
          THEN IF Head(s.chan) = NL
               THEN SetSession(fh, handle_inner([s EXCEPT !.chan = Tail(@)]))
               ELSE SetSession(fh, [s EXCEPT !.chan = Tail(@),
                                             !.line = Append(@, Head(s.chan))])
          ELSE /\ ~s.tx
               /\ SetSession(fh, Respond(s, ErrorResponse("BadControlRequest")))

\* a status_has that lists the store whether or not it has the hash
status_has_all(stores, s, hash) == Append(stores, StoreUrls[s])

\* if store.has(&hash).await? { stores.push(store.get_url()) }
status_has(stores, s, hash) ==
    IF has(s, hash) THEN Append(stores, StoreUrls[s]) ELSE stores

\* handle_status, one turn of the loop over the stores
CtlStatusHas(fh) ==
    LET s == objs[fh]
        k == s.loc
        stores == status_has(k.stores, k.next, k.hash)
    IN /\ fh \in 1 .. Len(objs)
       /\ s.pc = "has"
       /\ UNCHANGED <<catVars, file_handles, next_fh, tasks, ca, mutable, files>>
       /\ CtlQuiet
       /\ IF k.next < Len(StoreUrls)
          THEN SetSession(fh, [s EXCEPT !.loc.next = @ + 1, !.loc.stores = stores])
          ELSE SetSession(fh, Respond(s, StatusResponse(k.ino,
                                 [type |-> "immutable", length |-> k.length,
                                  hash |-> k.hash, stores |-> stores])))

\* handle_finalize: open_file(stores, &id)
CtlFinalizeOpen(fh) ==
    LET s == objs[fh]
    IN /\ fh \in 1 .. Len(objs)
       /\ s.pc = "open"
       /\ UNCHANGED <<catVars, file_handles, next_fh, tasks, ca, mutable, files>>
       /\ CtlQuiet
       /\ IF open_file(s.loc.id) = 0
          THEN SetSession(fh, Respond(s, ErrorResponse("NoSuchMutableFile")))
          ELSE SetSession(fh, [s EXCEPT !.pc = "finishA",
                                        !.loc = @ @@ [store |-> open_file(s.loc.id)]])

\* MutableFile::finish: read the file to the end and hash it
CtlFinalizeFinishA(fh) ==
    LET s == objs[fh]
    IN /\ fh \in 1 .. Len(objs)
       /\ s.pc = "finishA"
       /\ UNCHANGED <<catVars, file_handles, next_fh, tasks, ca, mutable, files>>
       /\ CtlQuiet
       /\ SetSession(fh, [s EXCEPT !.pc = "finishB",
                                   !.loc = @ @@ [length2 |-> Hash_hash(files[s.loc.id]).len,
                                                 hash |-> Hash_hash(files[s.loc.id]).hash]])

\* MutableFile::finish: promote the temporary; an error ends the request
CtlFinalizeFinishB(fh) ==
    LET s == objs[fh]
        r == finish_promote(s.loc.store, s.loc.id, s.loc.hash)
    IN /\ fh \in 1 .. Len(objs)
       /\ s.pc = "finishB"
       /\ ca' = r.ca
       /\ mutable' = r.mutable
       /\ UNCHANGED <<catVars, file_handles, next_fh, tasks, files>>
       /\ IF r.ok
          THEN SetSession(fh, [s EXCEPT !.pc = "commit"])
          ELSE SetSession(fh, Respond(s, ErrorResponse("StorageError")))
       /\ CtlQuiet

\* the error of fs.finalize(ino, &hash)
finalize_error(ino) ==
    IF stat(Begin, ino) # "ok" THEN "NoSuchInode"
    ELSE IF Inodes[ino].type # TMutableRegular THEN "NotMutableFile"
    ELSE "ok"

\* handle_finalize, the end: assert_eq!(length, length2), fs.finalize
CtlFinalizeCommit(fh) ==
    LET s == objs[fh]
    IN /\ fh \in 1 .. Len(objs)
       /\ s.pc = "commit"
       /\ IF s.loc.length # s.loc.length2
          THEN /\ UNCHANGED catVars
               /\ UNCHANGED <<file_handles, next_fh, tasks, ca, mutable, files>>
               /\ SetSession(fh, Panicked(s))
          ELSE /\ finalize(s.loc.ino, s.loc.hash)
               /\ UNCHANGED <<file_handles, next_fh, tasks, ca, mutable, files>>
               /\ SetSession(fh, IF finalize_error(s.loc.ino) = "ok"
                                 THEN Respond(s, FinalizeResponse)
                                 ELSE Respond(s, ErrorResponse(finalize_error(s.loc.ino))))
       /\ CtlQuiet

\* the (offset, size) of the reads of a control handle
CtlReads == {<<0, 3>>, <<1, 1>>}

\* how many reads of the control file are in flight at once
MaxCtlReads == 1

\* Filesystem::read on a control handle, under the state lock: a clone of
\* the shared future
CtlReadStart(t, fh, offset, size) ==
    /\ Free(t)
    /\ Cardinality({u \in TaskIds : tasks[u] # Idle}) < MaxCtlReads
    /\ file_handles[fh] # NoHandle
    /\ tasks' = [tasks EXCEPT ![t] = [op |-> "read", pc |-> "await", fh |-> fh,
                                      offset |-> offset, size |-> size]]
    /\ UNCHANGED <<catVars, file_handles, next_fh, objs, ca, mutable, files>>
    /\ CtlQuiet

\* Filesystem::read on a control handle: fut.await, then the bytes of the
\* response from offset on, size of them at most
CtlReadDone(t) ==
    LET k == tasks[t]
        s == objs[k.fh]
    IN /\ k.op = "read" /\ k.pc = "await"
       /\ s.pc \in {"done", "panicked"}
       /\ IF s.pc = "done"
          THEN Done(t, "read", [kind |-> "data", fh |-> k.fh, offset |-> k.offset,
                                size |-> k.size,
                                bytes |-> PRead(to_string(s.res), k.offset, k.size)])
          ELSE Done(t, "read", [kind |-> "panic", fh |-> k.fh, offset |-> k.offset,
                                size |-> k.size])
       /\ UNCHANGED <<catVars, file_handles, next_fh, objs, ca, mutable, files>>
       /\ CtlQuiet

\* the id of the mutable file of the catalog
CtlMutableId == Len(StoreUrls) + 1

\* a catalog with "a" bound to an immutable file or a symlink and "b" to a
\* mutable file or a directory; any of the stores hold the blob of the
\* immutable file, the first store holds the mutable file, one byte long,
\* of which the catalog has recorded the length or not yet.  Column ptr
\* holds a hash, <<"id", id>> for a mutable file, or nothing.
ControlInit ==
    /\ \E kinds \in {<<TImmutableRegular, TMutableRegular>>, <<TSymlink, TDirectory>>},
          recorded \in Lengths :
       LET ka == kinds[1]
           kb == kinds[2]
       IN
          /\ recorded <= IF kb = TMutableRegular THEN 1 ELSE 0
          /\ Inodes = [i \in Inos |->
                CASE i = root_ino ->
                       [type |-> TDirectory, nlink |-> 1, length |-> 0, ptr |-> <<>>,
                        perm |-> 0, uid |-> 0, gid |-> 0, crtime |-> 0, mtime |-> 0]
                  [] i = 2 ->
                       [type |-> ka, nlink |-> 1,
                        length |-> IF ka = TImmutableRegular THEN Len(Blob) ELSE 1,
                        ptr |-> IF ka = TImmutableRegular THEN BlobHash ELSE <<>>,
                        perm |-> 0, uid |-> 0, gid |-> 0, crtime |-> 0, mtime |-> 0]
                  [] i = 3 ->
                       [type |-> kb, nlink |-> 1,
                        length |-> recorded,
                        ptr |-> IF kb = TMutableRegular
                                THEN <<"id", CtlMutableId>> ELSE <<>>,
                        perm |-> 0, uid |-> 0, gid |-> 0, crtime |-> 0, mtime |-> 0]
                  [] OTHER -> NoRow]
          /\ DirEntries = {[dir |-> root_ino, name |-> "a", ino |-> 2, type |-> ka],
                           [dir |-> root_ino, name |-> "b", ino |-> 3, type |-> kb]}
          /\ mutable = [s \in StoreIds |->
                          IF s = first_writable /\ kb = TMutableRegular
                          THEN {CtlMutableId} ELSE {}]
    /\ next_ino = 4
    /\ \E holders \in SUBSET StoreIds :
          /\ Inodes[2].type = TSymlink => holders = {}
          /\ ca = [s \in StoreIds |-> IF s \in holders THEN {<<BlobHash, s>>} ELSE {}]
    /\ files = [f \in 1 .. CtlMutableId |-> IF f = CtlMutableId THEN <<1>> ELSE Blob]
    /\ superblock = <<>> /\ sb_next_ino = 0
    /\ file_handles = [fh \in Fhs |-> NoHandle]
    /\ next_fh = 1
    /\ tasks = [t \in TaskIds |-> Idle]
    /\ objs = <<>>
    /\ io_fail = {}
    /\ wrote = {}

ControlOpen == CtlOpen
ControlWrite == \E fh \in Fhs, data \in CtlWrites : CtlWrite(fh, data)
ControlRelease == \E fh \in Fhs : CtlRelease(fh)
ControlRecv == \E fh \in Fhs : CtlRecv(fh)
ControlStatusHas == \E fh \in Fhs : CtlStatusHas(fh)
ControlFinalizeOpen == \E fh \in Fhs : CtlFinalizeOpen(fh)
ControlFinalizeFinishA == \E fh \in Fhs : CtlFinalizeFinishA(fh)
ControlFinalizeFinishB == \E fh \in Fhs : CtlFinalizeFinishB(fh)
ControlFinalizeCommit == \E fh \in Fhs : CtlFinalizeCommit(fh)
ControlReadStart == \E t \in TaskIds, fh \in Fhs, r \in CtlReads :
                       CtlReadStart(t, fh, r[1], r[2])
ControlReadDone == \E t \in TaskIds : CtlReadDone(t)
ControlReply == \E t \in TaskIds : EngStep(Reply(t))

ControlNext ==
    \/ ControlOpen \/ ControlWrite \/ ControlRelease \/ ControlRecv
    \/ ControlStatusHas
    \/ ControlFinalizeOpen \/ ControlFinalizeFinishA \/ ControlFinalizeFinishB
    \/ ControlFinalizeCommit
    \/ ControlReadStart \/ ControlReadDone \/ ControlReply

SpecControl == ControlInit /\ [][ControlNext]_vars


(***************************************************************************)
(*   C22: one request and one response for each open of the control file   *)
(***************************************************************************)
\* the bytes of a sequence before its first newline, all of it without one
RECURSIVE FirstLine(_)
FirstLine(bytes) ==
    IF bytes = <<>> \/ Head(bytes) = NL THEN <<>>
    ELSE <<Head(bytes)>> \o FirstLine(Tail(bytes))

\* the sessions that got their newline and went on to a handler
Dispatched(s) == s.req # NoReq

\* the requests on the control file that were answered and not yet replied
CtlReadsDone == {t \in TaskIds : tasks[t].op = "read" /\ tasks[t].pc = "done"}

\* the session of every open read its request from the bytes before the
\* first newline and nothing else
C22_FirstLineOnly ==
    \A fh \in 1 .. Len(objs) :
       objs[fh].pc # "recv" =>
          /\ objs[fh].line = FirstLine(objs[fh].sent)
          /\ objs[fh].req = parse_request(objs[fh].line)
             \/ (objs[fh].req = NoReq /\ objs[fh].res = ErrorResponse("BadControlRequest"))

\* every read that finished returned the slice of the response of its handle
C22_ReadsAreSlices ==
    \A t \in CtlReadsDone :
       LET r == tasks[t].res
       IN /\ r.kind = "data"
          /\ objs[r.fh].pc = "done"
          /\ r.bytes = PRead(to_string(objs[r.fh].res), r.offset, r.size)

\* C22: for each open of the control file at most one request is dispatched,
\* the bytes written up to the first newline, and exactly one response is
\* produced: a dispatched request is never left without one; every read
\* returns the slice [offset, offset + size) of that response
C22_OneRequestOneResponse ==
    /\ C22_FirstLineOnly
    /\ \A fh \in 1 .. Len(objs) : Dispatched(objs[fh]) => objs[fh].pc # "panicked"
    /\ C22_ReadsAreSlices


(***************************************************************************)
(*   C23: a request that is invalid or whose handler fails is answered     *)
(*   with an Error response and changes nothing                            *)
(***************************************************************************)
\* the bytes sent on a handle hold no request: no newline came before the
\* sender was dropped, or the line is not the text of exactly one request
InvalidRequest(sent) ==
    \/ \A i \in 1 .. Len(sent) : sent[i] # NL
    \/ Len(FirstLine(sent)) # 1
    \/ FirstLine(sent)[1] \notin RequestTexts

\* the request of a line that holds one
RequestOf(sent) == FirstLine(sent)[1]

\* a session that is over for an invalid request has the response
\* Error{BadControlRequest} and changed nothing
C23_InvalidIsError ==
    \A fh \in 1 .. Len(objs) :
       objs[fh].pc # "recv" /\ InvalidRequest(objs[fh].sent) =>
          /\ objs[fh].pc = "done"
          /\ objs[fh].res = ErrorResponse("BadControlRequest")
          /\ ~objs[fh].changed

\* a session whose request names a path that does not resolve has the
\* response Error{msg} of the lookup and changed nothing
C23_FailedHandlerIsError ==
    \A fh \in 1 .. Len(objs) :
       objs[fh].pc # "recv" /\ ~InvalidRequest(objs[fh].sent)
       /\ Filesystem_lookup_path(RequestOf(objs[fh].sent).path).err # "ok" =>
          /\ objs[fh].pc = "done"
          /\ objs[fh].res =
                ErrorResponse(Filesystem_lookup_path(RequestOf(objs[fh].sent).path).err)
          /\ ~objs[fh].changed

\* no session that answered Error changed the catalog or a store
C23_ErrorChangesNothing ==
    \A fh \in 1 .. Len(objs) :
       objs[fh].pc = "done" /\ objs[fh].res.tag = "Error" => ~objs[fh].changed

\* whatever the other sessions did, a Status of a bound path that is over
\* has a Status response
C23_LaterStatusSucceeds ==
    \A fh \in 1 .. Len(objs) :
       objs[fh].pc = "done" /\ ~InvalidRequest(objs[fh].sent)
       /\ RequestOf(objs[fh].sent).tag = "Status"
       /\ Filesystem_lookup_path(RequestOf(objs[fh].sent).path).err = "ok" =>
          objs[fh].res.tag = "Status"

\* C23: a control request that is not valid UTF-8, not valid JSON, not one
\* of Status/Mirror/Finalize, or whose handler fails, yields an Error{msg}
\* response on that handle and leaves the catalog, the stores and the other
\* open handles unchanged; later control operations still succeed
C23_ErrorsAreResponses ==
    /\ C23_InvalidIsError
    /\ C23_FailedHandlerIsError
    /\ C23_ErrorChangesNothing
    /\ C23_LaterStatusSucceeds


(***************************************************************************)
(*   C24: Mirror copies the file to the target store                       *)
(***************************************************************************)
\* the store a request names by its URL
StoreOfUrl(url) == CHOOSE s \in StoreIds : StoreUrls[s] = url

\* the sessions whose request is a Mirror of an immutable file that some
\* store other than the target holds
MirrorSessions ==
    {fh \in 1 .. Len(objs) :
        /\ objs[fh].req.tag = "Mirror"
        /\ Filesystem_lookup_path(objs[fh].req.path).err = "ok"
        /\ LET row == Inodes[Filesystem_lookup_path(objs[fh].req.path).ino]
           IN /\ row.type = TImmutableRegular
              /\ \E src \in StoreIds \ {StoreOfUrl(objs[fh].req.store)} :
                    has(src, row.ptr)}

\* C24: Mirror{path, store} on an immutable file present in another store
\* answers Mirror{from}: afterwards the target store holds the hash, and
\* from is null or the URL of another store that holds it
C24_MirrorCopies ==
    \A fh \in MirrorSessions :
       LET s == objs[fh]
           hash == Inodes[Filesystem_lookup_path(s.req.path).ino].ptr
           target == StoreOfUrl(s.req.store)
       IN /\ s.pc = "done"
          /\ s.res.tag = "Mirror"
          /\ has(target, hash)
          /\ \/ s.res.from = "null"
             \/ \E src \in StoreIds \ {target} :
                   has(src, hash) /\ s.res.from = StoreUrls[src]


(***************************************************************************)
(*   C26: what a Status response holds                                     *)
(***************************************************************************)
\* the URLs of those of the first n stores that have the hash, in the order
\* of the store list
RECURSIVE UrlsHolding(_, _)
UrlsHolding(n, hash) ==
    IF n = 0 THEN <<>>
    ELSE UrlsHolding(n - 1, hash) \o (IF has(n, hash) THEN <<StoreUrls[n]>> ELSE <<>>)

\* the sessions that answered a Status request with a Status response
StatusSessions ==
    {fh \in 1 .. Len(objs) :
        objs[fh].pc = "done" /\ objs[fh].req.tag = "Status" /\ objs[fh].res.tag = "Status"}

\* C26: Status{path} on an immutable file returns its inode number, length,
\* hash and exactly the URLs of the stores for which has(hash) is true, in
\* store-list order; on a mutable file length and mutable-file id; on a
\* directory or a symlink only the kind.  (A file that was mutable when the
\* request looked at it may have been finalised since.)
C26_StatusContents ==
    \A fh \in StatusSessions :
       LET res == objs[fh].res
           ino == Filesystem_lookup_path(objs[fh].req.path).ino
           row == Inodes[ino]
       IN /\ res.ino = ino
          /\ row.type = TDirectory => res.info = [type |-> "directory"]
          /\ row.type = TSymlink => res.info = [type |-> "symlink"]
          /\ row.type = TMutableRegular =>
                res.info = [type |-> "mutable", length |-> row.length, id |-> row.ptr[2]]
          /\ row.type = TImmutableRegular =>
                \/ res.info = [type |-> "immutable", length |-> row.length,
                               hash |-> row.ptr,
                               stores |-> UrlsHolding(Len(StoreUrls), row.ptr)]
                \/ /\ objs[fh].req.path = <<"b">>
                   /\ res.info = [type |-> "mutable", length |-> row.length,
                                  id |-> CtlMutableId]

\* a Status of an immutable file that only the second store holds and a
\* Status of a mutable file have both been answered
C26_Witness ==
    /\ C26_StatusContents
    /\ \E fh \in StatusSessions :
          /\ objs[fh].res.info.type = "immutable"
          /\ objs[fh].res.info.stores = <<StoreUrls[2]>>
    /\ \E fh \in StatusSessions : objs[fh].res.info.type = "mutable"


(***************************************************************************)
(*   LocalStore::add AND copy_file, STEP BY STEP  (src/src/local_store.rs, *)
(*   src/src/store.rs).  The file ca/<BlobHash> of store s is files[s].    *)
(***************************************************************************)
\* write_all, one write of it: the next byte of data at the position of
\* this writer's file descriptor
write_all_step(buf, pos, data) == PWrite(buf, pos, SubSeq(data, pos + 1, pos + 1))

\* File::create(path): the file exists and is empty, whatever it held
File_create(s, hash) ==
    /\ ca' = [ca EXCEPT ![s] = @ \cup {<<hash, s>>}]
    /\ files' = [files EXCEPT ![s] = <<>>]

AddQuiet ==
    UNCHANGED <<catVars, superblock, sb_next_ino, file_handles, next_fh,
                mutable, objs, io_fail, wrote>>

\* Store::add(file_hash, data) is called on store s with the blob
AddStart(t, s) ==
    /\ Free(t)
    /\ tasks' = [tasks EXCEPT ![t] = [op |-> "add", pc |-> "exists", store |-> s,
                                      hash |-> BlobHash, data |-> Blob, pos |-> 0]]
    /\ UNCHANGED <<ca, files>>
    /\ AddQuiet

\* copy_file(file_hash, size, src_store, dst_store) is called
CopyStart(t, src, dst) ==
    /\ Free(t)
    /\ src # dst
    /\ tasks' = [tasks EXCEPT ![t] = [op |-> "copy", pc |-> "get", src |-> src,
                                      store |-> dst, hash |-> BlobHash,
                                      size |-> Len(Blob)]]
    /\ UNCHANGED <<ca, files>>
    /\ AddQuiet

\* copy_file: src_store.get(file_hash, 0, size).await?, then dst_store.add
CopyGet(t) ==
    LET k == tasks[t]
        r == get(k.src, k.hash, 0, k.size)
    IN /\ k.op = "copy" /\ k.pc = "get"
       /\ IF r.kind = "data"
          THEN tasks' = [tasks EXCEPT ![t] = [op |-> "copy", pc |-> "exists",
                                              src |-> k.src, store |-> k.store,
                                              hash |-> k.hash, data |-> r.bytes,
                                              pos |-> 0]]
          ELSE Done(t, "copy", [kind |-> r.kind])
       /\ UNCHANGED <<ca, files>>
       /\ AddQuiet

\* LocalStore::add: if !path.exists()
AddExists(t) ==
    LET k == tasks[t]
    IN /\ k.op \in {"add", "copy"} /\ k.pc = "exists"
       /\ IF has(k.store, k.hash)
          THEN Done(t, k.op, [kind |-> "ok"])
          ELSE tasks' = [tasks EXCEPT ![t].pc = "create"]
       /\ UNCHANGED <<ca, files>>
       /\ AddQuiet

\* LocalStore::add: tokio::fs::File::create(path).await?
AddCreate(t) ==
    LET k == tasks[t]
    IN /\ k.op \in {"add", "copy"} /\ k.pc = "create"
       /\ File_create(k.store, k.hash)
       /\ tasks' = [tasks EXCEPT ![t].pc = "write"]
       /\ AddQuiet

\* LocalStore::add: file.write_all(data).await?, one write of it, or its end
AddWrite(t) ==
    LET k == tasks[t]
    IN /\ k.op \in {"add", "copy"} /\ k.pc = "write"
       /\ IF k.pos < Len(k.data)
          THEN /\ files' = [files EXCEPT ![k.store] = write_all_step(@, k.pos, k.data)]
               /\ tasks' = [tasks EXCEPT ![t].pos = @ + 1]
          ELSE /\ Done(t, k.op, [kind |-> "ok"])
               /\ UNCHANGED files
       /\ UNCHANGED ca
       /\ AddQuiet

\* LocalStore::add: a write of write_all fails and the error is returned
AddWriteFails(t) ==
    LET k == tasks[t]
    IN /\ k.op \in {"add", "copy"} /\ k.pc = "write"
       /\ k.pos < Len(k.data)
       /\ Done(t, k.op, [kind |-> "StorageError"])
       /\ UNCHANGED <<ca, files>>
       /\ AddQuiet

\* stores that hold the whole blob or nothing under its hash
AddInit ==
    /\ CatTables
    /\ superblock = <<>> /\ sb_next_ino = 0
    /\ file_handles = [fh \in Fhs |-> NoHandle]
    /\ next_fh = 1
    /\ tasks = [t \in TaskIds |-> Idle]
    /\ \E holders \in SUBSET StoreIds :
          /\ ca = [s \in StoreIds |-> IF s \in holders THEN {<<BlobHash, s>>} ELSE {}]
          /\ files = [s \in StoreIds |-> IF s \in holders THEN Blob ELSE <<>>]
    /\ mutable = [s \in StoreIds |-> {}]
    /\ objs = <<>>
    /\ io_fail = {}
    /\ wrote = {}

AddNext ==
    \/ \E t \in TaskIds, s \in StoreIds : AddStart(t, s)
    \/ \E t \in TaskIds, src \in StoreIds, dst \in StoreIds : CopyStart(t, src, dst)
    \/ \E t \in TaskIds : CopyGet(t)
    \/ \E t \in TaskIds : AddExists(t)
    \/ \E t \in TaskIds : AddCreate(t)
    \/ \E t \in TaskIds : AddWrite(t)
    \/ \E t \in TaskIds : AddWriteFails(t)
    \/ \E t \in TaskIds : EngStep(Reply(t))

SpecAdd == AddInit /\ [][AddNext]_vars

\* C25: in every reachable state, the middle of an add and of concurrent
\* adds and copies included, a store either does not report the hash or
\* get(hash, 0, length) returns the complete bytes that digest to the hash,
\* and no copy has read other bytes than those from its source
C25_AtomicVisibility ==
    /\ \A s \in StoreIds :
          has(s, BlobHash) =>
             /\ get(s, BlobHash, 0, Len(Blob)).kind = "data"
             /\ Hash_hash(get(s, BlobHash, 0, Len(Blob)).bytes).hash = BlobHash
    /\ \A t \in TaskIds :
          tasks[t].op = "copy" /\ tasks[t].pc \in {"exists", "create", "write"} =>
             Hash_hash(tasks[t].data).hash = tasks[t].hash


(***************************************************************************)
(*   LISTING A DIRECTORY  (opendir, readdir, releasedir of                 *)
(*   src/src/fusefs.rs).  The root directory holds symlinks under up to    *)
(*   three names; file_handles[fh] is an OpenDirectory with its cursor     *)
(*   and, as history, what the handle has yielded so far.                  *)
(***************************************************************************)
\* the names of the entries of the listed directory
DirNames == {"a", "b", "c"}

\* how many entries fit into the reply buffer of one readdir
MaxReply == 2

\* the order of String, on the names of the model and the empty string
name_order(n) == CASE n = "" -> 0 [] n = "a" -> 1 [] n = "b" -> 2 [] n = "c" -> 3

\* the names of a set in ascending order
RECURSIVE Ascending(_)
Ascending(S) ==
    IF S = {} THEN <<>>
    ELSE LET m == CHOOSE x \in S : \A y \in S : name_order(x) <= name_order(y)
         IN <<m>> \o Ascending(S \ {m})

\* the names a directory binds
bound_names(dir) == {n \in DOMAIN dir.entries : dir.entries[n] # 0}

\* a range that starts at the cursor itself
range_included(dir, prev) ==
    Ascending({n \in bound_names(dir) : name_order(n) >= name_order(prev)})

\* dir.entries.range((Excluded(prev_dir_entry), Unbounded))
range_excluded(dir, prev) ==
    Ascending({n \in bound_names(dir) : name_order(n) > name_order(prev)})

\* OpenDirectory { inode, prev_dir_entry: String::new() }.  History: the
\* names yielded, in how many replies; the names bound all the time from
\* the opendir to the end of the listing; whether the directory changed in
\* that time; whether a call found its cursor entry gone; whether a call
\* has returned nothing
OpenDirectory(ino) ==
    [inode |-> ino, prev_dir_entry |-> "",
     yielded |-> <<>>, parts |-> 0, stable |-> bound_names(get_inode(ino)),
     changed |-> FALSE, resumed |-> FALSE, ended |-> FALSE]

DirHandles == {fh \in Fhs : file_handles[fh] # NoHandle}

DirQuiet == UNCHANGED <<catVars, storeVars, tasks>>

\* Filesystem::opendir
Opendir(ino) ==
    /\ next_fh <= MaxFh
    /\ get_inode(ino).kind = "Directory"
    /\ file_handles' = [file_handles EXCEPT ![next_fh] = OpenDirectory(ino)]
    /\ next_fh' = next_fh + 1
    /\ UNCHANGED <<superblock, sb_next_ino>>
    /\ DirQuiet

\* Filesystem::readdir with room for cap entries in the reply: the entries
\* after the cursor are added until reply.add reports the buffer full, and
\* the cursor follows the entries added.  A client calls until a reply is
\* empty.
Readdir(fh, cap) ==
    LET h == file_handles[fh]
        dir == get_inode(h.inode)
        rest == range_excluded(dir, h.prev_dir_entry)
        reply == SubSeq(rest, 1, Min(cap, Len(rest)))
    IN /\ fh \in DirHandles
       /\ ~h.ended
       /\ file_handles' = [file_handles EXCEPT ![fh] =
             [h EXCEPT !.prev_dir_entry = IF reply = <<>> THEN @ ELSE reply[Len(reply)],
                       !.yielded = @ \o reply,
                       !.parts = IF reply = <<>> THEN @ ELSE @ + 1,
                       !.resumed = @ \/ (/\ reply # <<>>
                                         /\ h.prev_dir_entry # ""
                                         /\ h.prev_dir_entry \notin bound_names(dir)),
                       !.ended = reply = <<>>]]
       /\ UNCHANGED <<superblock, sb_next_ino, next_fh>>
       /\ DirQuiet

\* Filesystem::releasedir
Releasedir(fh) ==
    /\ fh \in DirHandles
    /\ file_handles' = [file_handles EXCEPT ![fh] = NoHandle]
    /\ UNCHANGED <<superblock, sb_next_ino, next_fh>>
    /\ DirQuiet

\* a request that changes the root directory, between the calls on the
\* handles: n inodes are issued, the names of gone are no longer bound to
\* what they were
DirStep(ans, n, gone) ==
    /\ ans.err = "ok"
    /\ superblock' = ans.sb
    /\ sb_next_ino' = sb_next_ino + n
    /\ file_handles' = [fh \in Fhs |->
          IF fh \in DirHandles /\ ~file_handles[fh].ended
          THEN [file_handles[fh] EXCEPT !.stable = @ \ gone, !.changed = TRUE]
          ELSE file_handles[fh]]
    /\ UNCHANGED next_fh
    /\ DirQuiet

\* a root directory with any of the names bound to symlinks
ReaddirInit ==
    /\ \E present \in SUBSET DirNames :
          /\ superblock = [i \in TreeInos |->
                IF i = root_ino
                THEN [kind |-> "Directory",
                      entries |-> [n \in DirNames |->
                                     IF n \in present
                                     THEN 1 + Cardinality({m \in present :
                                                name_order(m) <= name_order(n)})
                                     ELSE 0]]
                ELSE IF i <= 1 + Cardinality(present) THEN [kind |-> "Symlink"]
                ELSE NoInode]
          /\ sb_next_ino = 2 + Cardinality(present)
    /\ file_handles = [fh \in Fhs |-> NoHandle]
    /\ next_fh = 1
    /\ tasks = <<>>
    /\ ca = <<>> /\ mutable = <<>> /\ files = <<>> /\ objs = <<>>
    /\ io_fail = {} /\ wrote = {}
    /\ CatTables

DirOpendir == Opendir(root_ino)
DirReaddir == \E fh \in Fhs, cap \in 1 .. MaxReply : Readdir(fh, cap)
DirReleasedir == \E fh \in Fhs : Releasedir(fh)
DirSymlink == /\ alloc_inode <= MaxTreeIno
              /\ \E n \in DirNames :
                    DirStep(Filesystem_mknode(root_ino, n, "Symlink"), 1, {})
DirUnlink == \E n \in DirNames : DirStep(Filesystem_unlink(root_ino, n), 0, {n})
DirRename == \E n \in DirNames, m \in DirNames :
                DirStep(Filesystem_rename(root_ino, n, root_ino, m), 0, {n})

ReaddirNext ==
    \/ DirOpendir \/ DirReaddir \/ DirReleasedir
    \/ DirSymlink \/ DirUnlink \/ DirRename

SpecReaddir == ReaddirInit /\ [][ReaddirNext]_vars

\* the names of a sequence
NamesOf(seq) == {seq[i] : i \in 1 .. Len(seq)}

\* what a handle has yielded is in strictly ascending order, and the cursor
\* is the name last yielded
C28_Ascending ==
    \A fh \in DirHandles :
       LET h == file_handles[fh]
       IN /\ \A i \in 1 .. Len(h.yielded), j \in 1 .. Len(h.yielded) :
                i < j => name_order(h.yielded[i]) < name_order(h.yielded[j])
          /\ h.prev_dir_entry =
                IF h.yielded = <<>> THEN "" ELSE h.yielded[Len(h.yielded)]

\* at the end of a listing every entry that was there all the time has been
\* yielded; with no change meanwhile these are the entries yielded
C28_Complete ==
    \A fh \in DirHandles :
       LET h == file_handles[fh]
       IN h.ended => /\ h.stable \subseteq NamesOf(h.yielded)
                     /\ ~h.changed => NamesOf(h.yielded) = h.stable

\* a call resumes at the least name greater than the name last yielded,
\* whether that name is still bound or not, and skips no name from there
C28_Resumes ==
    \A fh \in DirHandles :
       file_handles'[fh] # NoHandle /\ file_handles'[fh].yielded # file_handles[fh].yielded =>
          LET was == file_handles[fh].yielded
              now == file_handles'[fh].yielded
              cursor == IF was = <<>> THEN "" ELSE was[Len(was)]
              last == now[Len(now)]
              fresh == {now[i] : i \in Len(was) + 1 .. Len(now)}
          IN /\ SubSeq(now, 1, Len(was)) = was
             /\ fresh = {n \in bound_names(get_inode(file_handles[fh].inode)) :
                           /\ name_order(n) > name_order(cursor)
                           /\ name_order(n) <= name_order(last)}

\* C28: successive readdir calls on one directory handle yield entries in
\* ascending name order, each call resuming strictly after the name last
\* yielded: with no concurrent change every entry is yielded exactly once,
\* also when the reply buffer fills in the middle, and when the cursor entry
\* is deleted between calls the listing resumes at the next greater name
\* without skipping or repeating a surviving entry
C28_ReaddirCursor ==
    /\ [](C28_Ascending /\ C28_Complete)
    /\ [][C28_Resumes]_vars

\* one handle has listed three entries of an unchanged directory in more
\* than one reply; another has come to the end after a call that found its
\* cursor entry deleted and went on with a greater name
C28_Witness ==
    /\ \E fh \in DirHandles :
          /\ file_handles[fh].ended /\ ~file_handles[fh].changed
          /\ Len(file_handles[fh].yielded) = 3
          /\ file_handles[fh].parts = 2
    /\ \E fh \in DirHandles :
          /\ file_handles[fh].ended /\ file_handles[fh].resumed
          /\ file_handles[fh].stable # {}


(***************************************************************************)
(*   THE ENCRYPTING STORE  (src/src/encrypted_store.rs).  The inner store  *)
(*   is store 1; objs[1] is the EncryptedStore with its key; wrote is the  *)
(*   history of the get calls and what they returned.                      *)
(***************************************************************************)
\* the number of bytes of a hash, of an initialisation vector, of a block
HashLen == 64
IvLen == 16
BlockLen == 16

\* how many get calls are made, how long the stored files are
MaxGets == 3
MaxCipherLen == 2

\* exclusive or of two bytes
RECURSIVE XorBits(_, _, _)
XorBits(a, b, w) ==
    IF w = 0 THEN 0 ELSE ((a + b) % 2) + 2 * XorBits(a \div 2, b \div 2, w - 1)
Xor(a, b) == XorBits(a, b, 8)

\* the keys, the hashes of the files asked for, the files of the inner store
Keys == {1, 2}
PlainHashes == {[i \in 1 .. HashLen |-> (k * i) % 256] : k \in {3, 5}}
CipherTexts ==
    UNION {[1 .. n -> {0, 170}] : n \in 0 .. MaxCipherLen}

\* the byte of the AES-CTR keystream of (key, iv) at a position: a byte that
\* depends on the key, the iv, the block and the place in the block
keystream(key, iv, pos) ==
    (key * 7 + iv[1] * 3 + iv[IvLen] + (pos \div BlockLen) * 11 + (pos % BlockLen) * 5) % 256

\* Aes256Ctr::new, SyncStreamCipherSeek::seek, SyncStreamCipher::apply_keystream
Aes256Ctr_new(key, iv) == [key |-> key, iv |-> iv, pos |-> 0]
cipher_seek(cipher, pos) == [cipher EXCEPT !.pos = pos]
apply_keystream(cipher, buf) ==
    [data |-> [i \in 1 .. Len(buf) |->
                 Xor(buf[i], keystream(cipher.key, cipher.iv, cipher.pos + i - 1))],
     cipher |-> [cipher EXCEPT !.pos = @ + Len(buf)]]

\* EncryptedStore::encrypt_file_hash: the encrypted hash and the cipher,
\* which has moved past the bytes of the hash
encrypt_file_hash(key, file_hash) ==
    LET cipher == Aes256Ctr_new(key, SubSeq(file_hash, 1, IvLen))
        h == apply_keystream(cipher, file_hash)
    IN [hash |-> h.data, cipher |-> h.cipher]

\* a get that decrypts from the position of the offset
EncryptedStore_get_unshifted(key, file_hash, offset, size) ==
    LET e == encrypt_file_hash(key, file_hash)
        r == get(1, e.hash, offset, size)
    IN IF r.kind # "data" THEN r
       ELSE [kind |-> "data",
             bytes |-> apply_keystream(cipher_seek(e.cipher, offset), r.bytes).data]

\* EncryptedStore::get
EncryptedStore_get(key, file_hash, offset, size) ==
    LET e == encrypt_file_hash(key, file_hash)
        r == get(1, e.hash, offset, size)
    IN IF r.kind # "data" THEN r
       ELSE [kind |-> "data",
             bytes |-> apply_keystream(cipher_seek(e.cipher, offset + Len(file_hash)),
                                       r.bytes).data]

\* the (offset, size) of the get calls
EncReads == (0 .. MaxCipherLen) \X (1 .. MaxCipherLen)

\* get(file_hash, offset, size) is called on the encrypting store
EncGet(file_hash, offset, size) ==
    /\ Cardinality(wrote) < MaxGets
    /\ wrote' = wrote \cup
          {[hash |-> file_hash, offset |-> offset, size |-> size,
            res |-> EncryptedStore_get(objs[1].key, file_hash, offset, size)]}
    /\ UNCHANGED <<catVars, engVars, ca, mutable, files, objs, io_fail>>

\* an inner store that holds, under the encrypted hash of each file, some
\* bytes or nothing
EncInit ==
    /\ CatTables
    /\ superblock = <<>> /\ sb_next_ino = 0
    /\ file_handles = <<>> /\ next_fh = 0 /\ tasks = <<>>
    /\ \E key \in Keys :
          /\ objs = <<[key |-> key]>>
          /\ \E stored \in [PlainHashes -> CipherTexts \cup {<<255>>}],
                held \in SUBSET PlainHashes :
                LET order == [h \in PlainHashes |-> IF h[1] = 3 THEN 1 ELSE 2]
                IN /\ \A h \in PlainHashes : h \notin held => stored[h] = <<255>>
                   /\ \A h \in held : stored[h] \in CipherTexts
                   /\ ca = <<{<<encrypt_file_hash(key, h).hash, order[h]>> : h \in held}>>
                   /\ files = [f \in 1 .. 2 |->
                                 LET h == CHOOSE x \in PlainHashes : order[x] = f
                                 IN stored[h]]
    /\ mutable = <<{}>>
    /\ io_fail = {}
    /\ wrote = {}

EncNext == \E h \in PlainHashes, r \in EncReads : EncGet(h, r[1], r[2])

SpecEncrypted == EncInit /\ [][EncNext]_vars

\* the encrypted hash of a file: byte i of the hash with keystream
\* position i - 1
cipherHash(key, plainHash) ==
    [i \in 1 .. HashLen |->
        Xor(plainHash[i], keystream(key, SubSeq(plainHash, 1, IvLen), i - 1))]

\* buf with the keystream of (key, plainHash) from position pos on
Keyed(key, plainHash, pos, buf) ==
    [i \in 1 .. Len(buf) |->
        Xor(buf[i], keystream(key, SubSeq(plainHash, 1, IvLen), pos + i - 1))]

\* the gets that returned bytes
EncData == {r \in wrote : r.res.kind = "data"}

\* C29: get(plainHash, off, n) returns the inner store's bytes at
\* (cipherHash(plainHash), off, n) XORed with the keystream at positions
\* off + 64 .. off + 64 + n - 1, never with positions 0 .. 63; the file
\* byte at position p uses keystream position p + 64 however the reads are
\* chunked; re-encrypting the result at off + 64 gives back the inner bytes
C29_ShiftedKeystream ==
    LET key == objs[1].key
    IN /\ \A r \in wrote :
          LET inner == get(1, cipherHash(key, r.hash), r.offset, r.size)
          IN /\ r.res.kind = inner.kind
             /\ r.res.kind = "data" =>
                   /\ r.res.bytes = Keyed(key, r.hash, r.offset + 64, inner.bytes)
                   /\ Keyed(key, r.hash, r.offset + 64, r.res.bytes) = inner.bytes
       /\ \A r \in EncData, q \in EncData, w \in EncData :
             /\ r.hash = q.hash /\ q.hash = w.hash
             /\ Len(r.res.bytes) = r.size
             /\ q.offset = r.offset + r.size
             /\ w.offset = r.offset /\ w.size = r.size + q.size
             => w.res.bytes = r.res.bytes \o q.res.bytes

\* a file of two bytes was read in one get and in two, one byte each, and
\* what the gets returned is not what the inner store holds
C29_Witness ==
    /\ \E r \in EncData, q \in EncData, w \in EncData :
          /\ r.hash = q.hash /\ q.hash = w.hash
          /\ r.offset = 0 /\ r.size = 1 /\ q.offset = 1 /\ q.size = 1
          /\ w.offset = 0 /\ w.size = 2
          /\ Len(w.res.bytes) = 2
          /\ w.res.bytes # get(1, cipherHash(objs[1].key, w.hash), 0, 2).bytes


(***************************************************************************)
(*   C30: the sticky-store slot of a handle                                *)
(***************************************************************************)
\* the reads that set the slot of handle fh in this step
SlotWriters(fh) ==
    {t \in TaskIds : /\ tasks[t].op = "read" /\ tasks[t].pc = "latch"
                     /\ tasks[t].fh = fh
                     /\ tasks'[t].pc = "done" /\ tasks'[t].res.kind = "data"}

\* a slot that is set is not written again
SlotWrittenOnce ==
    \A fh \in Fhs :
       file_handles[fh] # NoHandle /\ file_handles[fh].store # 0 =>
          SlotWriters(fh) = {}

\* a slot that is set keeps its store as long as the handle is open
SlotNeverChanges ==
    \A fh \in Fhs :
       /\ file_handles[fh] # NoHandle /\ file_handles[fh].store # 0
       /\ file_handles'[fh] # NoHandle
       => file_handles'[fh].store = file_handles[fh].store

\* C30: the sticky-store slot of an immutable-read handle is written at most
\* once in the handle's lifetime and never changes once set, also when two
\* reads on the same handle run concurrently while the slot is still empty
C30_StickyWrittenOnce == [][SlotWrittenOnce /\ SlotNeverChanges]_vars


(***************************************************************************)
(*   C31: the assertion of Finalize                                        *)
(***************************************************************************)
\* the Finalize requests whose finish has returned the length it observed
FinishReturned ==
    {t \in TaskIds : tasks[t].op = "Finalize" /\ tasks[t].pc \in {"finishB", "commit"}}

\* C31: whenever the finish call of a Finalize request returns, the length
\* it observed equals the length the catalog recorded when the request
\* looked the inode up, so the assertion in Finalize never fails
C31_FinalizeLengthsAgree ==
    /\ \A t \in FinishReturned : tasks[t].length2 = tasks[t].length
    /\ \A t \in TaskIds :
          tasks[t].op = "Finalize" /\ tasks[t].pc = "done" => tasks[t].res.kind # "panic"


(***************************************************************************)
(*   WRITES ON ONE HANDLE  (Filesystem::write of src/src/fusefs.rs,        *)
(*   wrap_write of src/src/fuse_util.rs).  A request arrives when the      *)
(*   session loop calls Filesystem::write, which spawns its task; requests *)
(*   that arrive together take the task slots in their order of arrival.   *)
(***************************************************************************)
\* how many write requests arrive before the first of them is replied
MaxArrive == 2

\* the runs of write requests that arrive on a handle
Arrivals == UNION {[1 .. n -> Writes] : n \in 1 .. MaxArrive}

\* wrap_write: executor.spawn of the request's future
Spawned(fh, w) ==
    [op |-> "write", pc |-> "spawned", fh |-> fh, offset |-> w[1], data |-> w[2]]

\* Filesystem::write is called for each request of the run, in order
WrArrive(fh, ws) ==
    /\ \A t \in TaskIds : tasks[t] = Idle
    /\ file_handles[fh] # NoHandle
    /\ tasks' = [t \in TaskIds |-> IF t <= Len(ws) THEN Spawned(fh, ws[t]) ELSE Idle]
    /\ UNCHANGED <<superblock, sb_next_ino, file_handles, next_fh, storeVars>>

\* the task of a write is polled for the first time: the handle and the
\* MutableFile of its inode, under the state lock
WrTake(t) ==
    LET k == tasks[t]
        inode == get_inode(file_handles[k.fh].inode)
    IN /\ k.op = "write" /\ k.pc = "spawned"
       /\ IF handle_error(k.fh) # "ok"
          THEN Done(t, "write", [kind |-> handle_error(k.fh)])
          ELSE IF inode.kind = "RegularFile"
          THEN Done(t, "write", [kind |-> "EPERM"])
          ELSE tasks' = [tasks EXCEPT ![t] =
                           [op |-> "write", pc |-> "do", fh |-> k.fh,
                            ino |-> file_handles[k.fh].inode, id |-> inode.id,
                            offset |-> k.offset, data |-> k.data]]
       /\ UNCHANGED <<superblock, sb_next_ino, file_handles, next_fh, storeVars>>

\* the requests of the run have all been replied
WrReplied ==
    /\ \E t \in TaskIds : tasks[t] # Idle
    /\ \A t \in TaskIds : tasks[t] # Idle => tasks[t].pc = "done"
    /\ tasks' = [t \in TaskIds |-> Idle]
    /\ UNCHANGED <<superblock, sb_next_ino, file_handles, next_fh, storeVars>>

\* the state after create of "a" in the root: a mutable file and its
\* read-write handle
WritesInit ==
    /\ superblock = [i \in EngInos |->
                       IF i = root_ino
                       THEN [kind |-> "Directory",
                             entries |-> [NoEntries EXCEPT !["a"] = root_ino + 1]]
                       ELSE [kind |-> "MutableFile", id |-> 1]]
    /\ sb_next_ino = root_ino + 2
    /\ file_handles = [fh \in Fhs |->
                         IF fh = 1
                         THEN [OpenRegularFile(root_ino + 1) EXCEPT !.for_writing = TRUE]
                         ELSE NoHandle]
    /\ next_fh = 2
    /\ tasks = [t \in TaskIds |-> Idle]
    /\ ca = [s \in StoreIds |-> {}]
    /\ mutable = [s \in StoreIds |-> IF s = first_writable THEN {1} ELSE {}]
    /\ files = <<<<>>>>
    /\ objs = <<[store |-> first_writable, file |-> TRUE, lock |-> FALSE,
                 len |-> 0, keep |-> FALSE]>>
    /\ io_fail = {}
    /\ wrote = {}
    /\ CatTables

WritesNext ==
    \/ \E fh \in Fhs, ws \in Arrivals : EngStep(WrArrive(fh, ws))
    \/ \E t \in TaskIds : EngStep(WrTake(t))
    \/ \E t \in TaskIds : EngStep(MutableFile_write(t))
    \/ EngStep(WrReplied)

SpecWrites == WritesInit /\ [][WritesNext]_vars

\* the positions that two writes both cover
Overlap(w1, w2) ==
    {p \in 0 .. 3 : /\ w1.offset <= p /\ p < w1.offset + Len(w1.data)
                    /\ w2.offset <= p /\ p < w2.offset + Len(w2.data)}

\* C32: two writes issued in the order w1, w2 on the same handle to
\* overlapping byte ranges leave w2's bytes in the overlap
C32_ArrivalOrder ==
    \A t \in TaskIds, u \in TaskIds :
       /\ t < u
       /\ tasks[t] # Idle /\ tasks[t].pc = "done" /\ tasks[t].res.kind = "ok"
       /\ tasks[u] # Idle /\ tasks[u].pc = "done" /\ tasks[u].res.kind = "ok"
       /\ tasks[t].res.fh = tasks[u].res.fh
       => \A p \in Overlap(tasks[t].res, tasks[u].res) :
             files[get_inode(tasks[u].res.ino).id][p + 1] =
                tasks[u].res.data[p - tasks[u].res.offset + 1]


(***************************************************************************)
(*   CREATE OVER A LIST OF STORES  (Filesystem::create and create_file of  *)
(*   src/src/fusefs.rs, open_store of src/src/main.rs).  In this           *)
(*   specification `wrote` holds the kinds of the mounted stores, in list  *)
(*   order: a LocalStore, or an EncryptedStore around one.                 *)
(***************************************************************************)
\* how many mutable files the stores are asked for
MaxAllocs == 2

StoreKinds == {"LocalStore", "EncryptedStore"}

\* Store::create_file is Some(..) for a LocalStore, None for an EncryptedStore
provides_create_file(kind) == kind = "LocalStore"

\* a create_file that takes the last store providing it
fusefs_create_file_last(kinds) ==
    LET ok == {s \in DOMAIN kinds : provides_create_file(kinds[s])}
    IN IF ok = {} THEN 0 ELSE CHOOSE s \in ok : \A u \in ok : u <= s

\* create_file(stores): the first store of the list whose create_file is
\* Some, 0 for Err(EROFS)
fusefs_create_file(kinds) ==
    LET ok == {s \in DOMAIN kinds : provides_create_file(kinds[s])}
    IN IF ok = {} THEN 0 ELSE CHOOSE s \in ok : \A u \in ok : s <= u

\* the creates in flight that will add an inode
CommitsPending ==
    {t \in TaskIds : /\ tasks[t].op = "create" /\ tasks[t].pc = "commit"
                     /\ entry_error(tasks[t].parent, tasks[t].name) = "ok"}

\* Filesystem::create up to the state write lock: create_file(stores).await?
CrAlloc(t, parent, name) ==
    LET s == fusefs_create_file(wrote)
    IN /\ Free(t)
       /\ next_fh + Cardinality(CommitsPending) <= MaxFh
       /\ \/ entry_error(parent, name) # "ok"
          \/ alloc_inode + Cardinality(CommitsPending) <= MaxSbIno
       /\ Len(files) < MaxAllocs
       /\ IF s = 0
          THEN /\ Done(t, "create", [kind |-> "NoWritableStore"])
               /\ UNCHANGED <<files, mutable, objs>>
          ELSE /\ files' = Append(files, <<>>)
               /\ mutable' = [mutable EXCEPT ![s] = @ \cup {Len(files) + 1}]
               /\ objs' = Append(objs, [store |-> s, file |-> TRUE, lock |-> FALSE,
                                        len |-> 0, keep |-> FALSE])
               /\ tasks' = [tasks EXCEPT ![t] = [op |-> "create", pc |-> "commit",
                                                 parent |-> parent, name |-> name,
                                                 id |-> Len(files) + 1]]
       /\ UNCHANGED <<superblock, sb_next_ino, file_handles, next_fh, ca, io_fail, wrote>>

\* a mount of two stores of either kind, with an empty root
CreateInit ==
    /\ superblock = [i \in EngInos |->
                       IF i = root_ino
                       THEN [kind |-> "Directory", entries |-> NoEntries]
                       ELSE NoInode]
    /\ sb_next_ino = root_ino + 1
    /\ file_handles = [fh \in Fhs |-> NoHandle]
    /\ next_fh = 1
    /\ tasks = [t \in TaskIds |-> Idle]
    /\ ca = [s \in StoreIds |-> {}]
    /\ mutable = [s \in StoreIds |-> {}]
    /\ files = <<>>
    /\ objs = <<>>
    /\ io_fail = {}
    /\ wrote \in [StoreIds -> StoreKinds]
    /\ CatTables

CreateNext ==
    \/ \E t \in TaskIds, parent \in EngInos, name \in Names :
          EngStep(CrAlloc(t, parent, name))
    \/ \E t \in TaskIds : EngStep(CreateCommit(t))
    \/ \E t \in TaskIds : EngStep(Reply(t))

SpecCreate == CreateInit /\ [][CreateNext]_vars

\* the stores of the list before s all answer None to create_file
FirstProviding(s) ==
    /\ provides_create_file(wrote[s])
    /\ \A u \in StoreIds : u < s => ~provides_create_file(wrote[u])

\* a create of task t completes in this step with result kind k
CreateEnds(t, k) ==
    /\ tasks[t].op # "create" \/ tasks[t].pc # "done"
    /\ tasks'[t].op = "create" /\ tasks'[t].pc = "done" /\ tasks'[t].res.kind = k

\* C33: create allocates the mutable file on the first store in list order
\* whose create_file is provided, skipping the stores that return None; when
\* no store provides it, create fails with NoWritableStore and adds no inode,
\* no directory entry, no handle and no mutable file
C33_FirstWritableStore ==
    [][/\ \A s \in StoreIds : mutable'[s] # {} => FirstProviding(s)
       /\ \A t \in TaskIds :
             /\ CreateEnds(t, "ok") =>
                   \E s \in StoreIds :
                      /\ FirstProviding(s)
                      /\ superblock'[tasks'[t].res.ino].id \in mutable'[s]
             /\ CreateEnds(t, "NoWritableStore") <=>
                   /\ tasks[t] = Idle /\ tasks'[t] # Idle
                   /\ \A s \in StoreIds : ~provides_create_file(wrote[s])
             /\ CreateEnds(t, "NoWritableStore") =>
                   /\ superblock' = superblock /\ sb_next_ino' = sb_next_ino
                   /\ file_handles' = file_handles /\ next_fh' = next_fh
                   /\ mutable' = mutable /\ files' = files]_vars

\* a file was created on the second store because the first is encrypting
C33_Witness ==
    /\ wrote[1] = "EncryptedStore" /\ wrote[2] = "LocalStore"
    /\ \E t \in TaskIds :
          /\ tasks[t].op = "create" /\ tasks[t].pc = "done" /\ tasks[t].res.kind = "ok"
          /\ superblock[tasks[t].res.ino].id \in mutable[2]
    /\ mutable[1] = {}

\* a create failed with NoWritableStore on a mount without a writable store
C33_WitnessNone ==
    /\ \A s \in StoreIds : wrote[s] = "EncryptedStore"
    /\ \E t \in TaskIds :
          tasks[t].op = "create" /\ tasks[t].pc = "done"
          /\ tasks[t].res.kind = "NoWritableStore"


\* the mutable files that an inode of the superblock or a create in flight holds
HeldFiles ==
    {superblock[i].id : i \in {j \in EngInos : superblock[j].kind = "MutableFile"}}
       \cup {tasks[t].id : t \in {u \in TaskIds : tasks[u].op = "create"
                                                  /\ tasks[u].pc = "commit"}}

CreateErrors == {"EntryExists", "NoSuchInode", "NotDirectory"}

\* C34: a create that fails after the store has allocated the mutable file
\* (name already bound, parent missing or not a directory) leaves no
\* mutable/<id> file in any store, no inode, no directory entry and no handle
C34_FailedCreateLeavesNothing ==
    [][/\ \A s \in StoreIds : mutable'[s] \subseteq HeldFiles'
       /\ \A t \in TaskIds, e \in CreateErrors :
             CreateEnds(t, e) =>
                /\ \A s \in StoreIds : tasks[t].id \notin mutable'[s]
                /\ superblock' = superblock /\ sb_next_ino' = sb_next_ino
                /\ file_handles' = file_handles /\ next_fh' = next_fh]_vars

\* creates have failed with a bound name and with a parent that is a file,
\* after a create that succeeded
C34_Witness ==
    /\ \E t \in TaskIds :
          tasks[t].op = "create" /\ tasks[t].pc = "done"
          /\ tasks[t].res.kind \in {"EntryExists", "NotDirectory"}
    /\ Len(files) = 2
    /\ \E s \in StoreIds : mutable[s] = {1}


\* the session's task has stopped: it returned its response or it unwound
Stopped(s) == s.pc \in {"done", "panicked"}

\* C35: every control session terminates with its response future resolved:
\* a session task never stops without a response, so that no reader waits
\* on a future that cannot resolve
C35_SessionsResolve ==
    \A fh \in 1 .. Len(objs) : Stopped(objs[fh]) => objs[fh].res # NoRes


(***************************************************************************)
(*   THE HANDLE TABLE  (impl FileHandles, and open, opendir, create, read, *)
(*   write, readdir, release and releasedir of src/src/fusefs.rs) over     *)
(*   handles of files and of directories together.                         *)
(***************************************************************************)
\* OpenFile::Directory(OpenDirectory { inode, prev_dir_entry })
DirectoryHandle(ino) == [inode |-> ino, prev_dir_entry |-> ""]

IsDirectoryHandle(h) == "prev_dir_entry" \in DOMAIN h

HandleQuiet == UNCHANGED <<superblock, sb_next_ino, storeVars>>

\* an opendir that hands out the lowest id not in the table
HOpendir_lowest_free(ino) ==
    /\ \E fh \in Fhs :
          /\ file_handles[fh] = NoHandle
          /\ \A g \in Fhs : g < fh => file_handles[g] # NoHandle
          /\ file_handles' = [file_handles EXCEPT ![fh] = DirectoryHandle(ino)]
          /\ next_fh' = IF fh = next_fh THEN next_fh + 1 ELSE next_fh
    /\ get_inode(ino) # NoInode
    /\ get_inode(ino).kind = "Directory"
    /\ UNCHANGED tasks
    /\ HandleQuiet

\* Filesystem::opendir
HOpendir(ino) ==
    /\ next_fh <= MaxFh
    /\ get_inode(ino) # NoInode
    /\ get_inode(ino).kind = "Directory"
    /\ file_handles' = [file_handles EXCEPT ![next_fh] = DirectoryHandle(ino)]
    /\ next_fh' = next_fh + 1
    /\ UNCHANGED tasks
    /\ HandleQuiet

\* Filesystem::readdir: get_directory(fh), the entries after prev_dir_entry
\* as far as the reply takes them, or EBADF
HReaddir(t, fh, cap) ==
    LET h == file_handles[fh]
        rest == range_excluded(get_inode(h.inode), h.prev_dir_entry)
        reply == SubSeq(rest, 1, Min(cap, Len(rest)))
    IN /\ Free(t)
       /\ IF IsDirectoryHandle(h)
          THEN /\ file_handles' = [file_handles EXCEPT ![fh].prev_dir_entry =
                                     IF reply = <<>> THEN @ ELSE reply[Len(reply)]]
               /\ Done(t, "readdir", [kind |-> "ok", fh |-> fh, names |-> reply])
          ELSE /\ Done(t, "readdir", [kind |-> "EBADF"])
               /\ UNCHANGED file_handles
       /\ UNCHANGED next_fh
       /\ HandleQuiet

\* Filesystem::releasedir: file_handles.remove(fh), or EBADF
HReleasedir(t, fh) ==
    /\ Free(t)
    /\ IF file_handles[fh] # NoHandle
       THEN /\ file_handles' = [file_handles EXCEPT ![fh] = NoHandle]
            /\ Done(t, "releasedir", [kind |-> "ok", fh |-> fh])
       ELSE /\ Done(t, "releasedir", [kind |-> "EBADF"])
            /\ UNCHANGED file_handles
    /\ UNCHANGED next_fh
    /\ HandleQuiet

\* Filesystem::release: a handle that is not OpenFile::Regular is removed
\* and nothing else happens
HRelease(t, fh) ==
    IF IsDirectoryHandle(file_handles[fh])
    THEN /\ Free(t)
         /\ file_handles' = [file_handles EXCEPT ![fh] = NoHandle]
         /\ Done(t, "release", [kind |-> "ok", fh |-> fh])
         /\ UNCHANGED next_fh
         /\ HandleQuiet
    ELSE ReleaseStart(t, fh)

\* the one write and the one read the requests of this specification carry
HWrite == <<0, <<1>>>>
HRead == <<0, 1>>

HandlesNext ==
    \/ EngCreateAlloc \/ EngCreateCommit \/ EngOpen
    \/ EngStep(HOpendir(root_ino))
    \/ \E t \in TaskIds, fh \in Fhs : EngStep(WriteStart(t, fh, HWrite[1], HWrite[2]))
    \/ EngWrite
    \/ \E t \in TaskIds, fh \in Fhs : EngStep(ReadStart(t, fh, HRead[1], HRead[2]))
    \/ EngReadMutable \/ EngReadSticky \/ EngReadProbe \/ EngReadLatch
    \/ \E t \in TaskIds, fh \in Fhs : EngStep(HReaddir(t, fh, 1))
    \/ \E t \in TaskIds, fh \in Fhs : EngStep(HReleasedir(t, fh))
    \/ \E t \in TaskIds, fh \in Fhs : EngStep(HRelease(t, fh))
    \/ EngReleaseFinishA \/ EngReleaseFinishB \/ EngReleaseConvert
    \/ EngReply

SpecHandles == EngInit /\ [][HandlesNext]_vars

HandleOps == {"read", "write", "readdir", "release", "releasedir"}
BadHandle == {"BadFileHandle", "EBADF"}

\* task t takes up a request on a handle in this step
HandleOpStarts(t) == tasks[t] = Idle /\ tasks'[t] # Idle /\ tasks'[t].op \in HandleOps

\* the request task t takes up fails at once with a bad-handle error
FailsBadHandle(t) == tasks'[t].pc = "done" /\ tasks'[t].res.kind \in BadHandle

\* the handle id of a record, 0 when the record carries none
FhOf(r) == IF "fh" \in DOMAIN r THEN r.fh ELSE 0

\* the ids that were issued and released
Released == {fh \in Fhs : fh < next_fh /\ file_handles[fh] = NoHandle}

\* C36: handle ids are issued in strictly increasing order and never reused,
\* even after release; a read, write, readdir, release or releasedir on a
\* released id fails with a bad-handle error and changes no state
C36_HandleIds ==
    [][/\ next_fh' >= next_fh
       /\ \A fh \in Fhs :
             /\ fh >= next_fh' => file_handles'[fh] = NoHandle
             /\ file_handles[fh] = NoHandle /\ file_handles'[fh] # NoHandle
                   => fh = next_fh /\ next_fh' = next_fh + 1
             /\ fh \in Released => fh \in Released'
       /\ \A t \in TaskIds :
             HandleOpStarts(t) =>
                /\ FailsBadHandle(t) =>
                      /\ file_handles' = file_handles /\ next_fh' = next_fh
                      /\ superblock' = superblock /\ sb_next_ino' = sb_next_ino
                      /\ ca' = ca /\ mutable' = mutable /\ files' = files
                      /\ objs' = objs
                /\ ~FailsBadHandle(t) =>
                      LET fh == IF tasks'[t].pc = "done" THEN FhOf(tasks'[t].res)
                                ELSE tasks'[t].fh
                      IN fh # 0 => fh \notin Released
                /\ Released = Fhs => FailsBadHandle(t)]_vars

\* both handle ids were issued and released, and a request on one of them
\* has failed with a bad-handle error
C36_Witness ==
    /\ Released = Fhs
    /\ \E t \in TaskIds :
          /\ tasks[t].op \in HandleOps /\ tasks[t].pc = "done"
          /\ tasks[t].res.kind \in BadHandle


(***************************************************************************)
(*   SET-LENGTH ON A MUTABLE FILE  (impl MutableFile of                    *)
(*   src/src/local_store.rs: write, read, finish, set_file_length).  Each  *)
(*   method holds the mutex of `file` from its first line to its last.     *)
(***************************************************************************)
\* how many mutable files are created, how many calls an object receives
MaxSetFiles == 2
MaxCalls == 3

SetLengths == {0, 2}
SetWrites == {<<0, <<1>>>>, <<1, <<2>>>>}
SetReads == {<<0, 2>>}

\* File::set_len: cut, or extended with zeros
set_len(buf, n) ==
    [i \in 1 .. n |-> IF i <= Len(buf) THEN buf[i] ELSE 0]

\* set_file_length takes the file out of the mutex and returns without
\* `*file_lock = Some(file)`
set_file_length_restores == FALSE

\* the object create_file returns: the file in the mutex, len, and the
\* outcome of the last call
NewLengthFile(id) ==
    [store |-> first_writable, id |-> id, file |-> TRUE, len |-> 0, calls |-> 0,
     resized |-> FALSE, finished |-> FALSE, last |-> [call |-> "create_file", kind |-> "ok"]]

\* "write handle invalidated by previous write error"
Invalidated(h, call) ==
    [h EXCEPT !.calls = @ + 1, !.last = [call |-> call, kind |-> "panic"]]

Callable(o) == o \in 1 .. Len(objs) /\ objs[o].calls < MaxCalls

SlQuiet == UNCHANGED <<catVars, engVars, io_fail, wrote>>

\* LocalStore::create_file
SlCreate ==
    /\ Len(files) < MaxSetFiles
    /\ files' = Append(files, <<>>)
    /\ mutable' = [mutable EXCEPT ![first_writable] = @ \cup {Len(files) + 1}]
    /\ objs' = Append(objs, NewLengthFile(Len(files) + 1))
    /\ UNCHANGED ca
    /\ SlQuiet

\* MutableFile::write
SlWrite(o, offset, data) ==
    LET h == objs[o]
    IN /\ Callable(o)
       /\ IF h.file
          THEN /\ files' = [files EXCEPT ![h.id] = PWrite(@, offset, data)]
               /\ objs' = [objs EXCEPT ![o] =
                     [h EXCEPT !.len = Max(@, offset + Len(data)), !.calls = @ + 1,
                               !.last = [call |-> "write", kind |-> "ok"]]]
          ELSE /\ objs' = [objs EXCEPT ![o] = Invalidated(h, "write")]
               /\ UNCHANGED files
       /\ UNCHANGED <<ca, mutable>>
       /\ SlQuiet

\* MutableFile::read
SlRead(o, offset, size) ==
    LET h == objs[o]
    IN /\ Callable(o)
       /\ objs' = [objs EXCEPT ![o] =
             IF h.file
             THEN [h EXCEPT !.calls = @ + 1,
                            !.last = [call |-> "read", kind |-> "ok", offset |-> offset,
                                      size |-> size,
                                      bytes |-> PRead(files[h.id], offset, size)]]
             ELSE Invalidated(h, "read")]
       /\ UNCHANGED <<ca, mutable, files>>
       /\ SlQuiet

\* MutableFile::set_file_length
SlSetLength(o, n) ==
    LET h == objs[o]
    IN /\ Callable(o)
       /\ IF h.file
          THEN /\ files' = [files EXCEPT ![h.id] = set_len(@, n)]
               /\ objs' = [objs EXCEPT ![o] =
                     [h EXCEPT !.file = set_file_length_restores, !.calls = @ + 1,
                               !.resized = TRUE,
                               !.last = [call |-> "set_file_length", kind |-> "ok",
                                         length |-> n]]]
          ELSE /\ objs' = [objs EXCEPT ![o] = Invalidated(h, "set_file_length")]
               /\ UNCHANGED files
       /\ UNCHANGED <<ca, mutable>>
       /\ SlQuiet

\* MutableFile::finish
SlFinish(o) ==
    LET h == objs[o]
        hash == Hash_hash(files[h.id])
        r == finish_step(ca, mutable, h.store, h.id, hash.hash, has(h.store, hash.hash))
    IN /\ Callable(o)
       /\ IF h.file
          THEN /\ ca' = r.ca
               /\ mutable' = r.mutable
               /\ objs' = [objs EXCEPT ![o] =
                     [h EXCEPT !.file = FALSE, !.calls = @ + 1, !.finished = TRUE,
                               !.last = [call |-> "finish", kind |-> "ok",
                                         len |-> hash.len, hash |-> hash.hash]]]
          ELSE /\ objs' = [objs EXCEPT ![o] = Invalidated(h, "finish")]
               /\ UNCHANGED <<ca, mutable>>
       /\ UNCHANGED files
       /\ SlQuiet

SetLengthInit ==
    /\ ca = [s \in StoreIds |-> {}]
    /\ mutable = [s \in StoreIds |-> {}]
    /\ files = <<>>
    /\ objs = <<>>
    /\ io_fail = {}
    /\ wrote = {}
    /\ CatTables
    /\ superblock = <<>> /\ sb_next_ino = 0 /\ file_handles = <<>>
    /\ next_fh = 0 /\ tasks = <<>>

SetLengthNext ==
    \/ SlCreate
    \/ \E o \in 1 .. MaxSetFiles, w \in SetWrites : SlWrite(o, w[1], w[2])
    \/ \E o \in 1 .. MaxSetFiles, r \in SetReads : SlRead(o, r[1], r[2])
    \/ \E o \in 1 .. MaxSetFiles, n \in SetLengths : SlSetLength(o, n)
    \/ \E o \in 1 .. MaxSetFiles : SlFinish(o)

SpecSetLength == SetLengthInit /\ [][SetLengthNext]_vars

\* C37: after set_file_length has succeeded on a mutable file the file stays
\* usable: write, read, set_file_length and finish on it succeed
C37_UsableAfterSetLength ==
    \A o \in 1 .. Len(objs) :
       objs[o].resized /\ ~objs[o].finished => objs[o].last.kind = "ok"


(***************************************************************************)
(*   PERMISSION BITS  (impl From<&Inode> for fuse::FileAttr, and getattr,  *)
(*   setattr, mkdir and create of src/src/fusefs.rs).  Inodes carry perm;  *)
(*   `asked` is history: the mode of the request that set perm last.       *)
(***************************************************************************)
\* the modes a request carries: permission values from 0 to 0o7777, and
\* modes with file-type bits above them (0o40755, 0o100644)
Modes == {0, 1, 420, 2541, 4094, 4095, 16877, 33188}

Perms == 0 .. 4095

\* mode & 0o7777 on a u32
mask_perm(mode) == mode % 4096

\* FileAttr::perm: (inode.perm % 0o7777) as u16
attr_perm(perm) == (perm % 4095) % 65536

\* Superblock::new: the root directory, perm 0o700
PermRoot == [kind |-> "Directory", entries |-> NoEntries, perm |-> 448, asked |-> 448]

PermQuiet == UNCHANGED <<catVars, ca, io_fail, wrote>>

\* Filesystem::getattr: the reply is the FileAttr of the inode
Getattr(ino) ==
    /\ get_inode(ino) # NoInode
    /\ tasks' = <<[op |-> "getattr", ino |-> ino,
                   perm |-> attr_perm(get_inode(ino).perm),
                   asked |-> get_inode(ino).asked]>>
    /\ UNCHANGED <<superblock, sb_next_ino, file_handles, next_fh, mutable, files, objs>>
    /\ PermQuiet

\* Filesystem::setattr with a mode and no size
Setattr(ino, mode) ==
    /\ get_inode(ino) # NoInode
    /\ superblock' = [superblock EXCEPT ![ino].perm = mask_perm(mode),
                                        ![ino].asked = mode]
    /\ tasks' = <<[op |-> "setattr", ino |-> ino,
                   perm |-> attr_perm(mask_perm(mode)), asked |-> mode]>>
    /\ UNCHANGED <<sb_next_ino, file_handles, next_fh, mutable, files, objs>>
    /\ PermQuiet

\* Filesystem::mkdir
Mkdir(parent, name, mode) ==
    /\ alloc_inode <= MaxSbIno
    /\ entry_error(parent, name) = "ok"
    /\ superblock' = add_inode(parent, name,
                               [kind |-> "Directory", entries |-> NoEntries,
                                perm |-> mask_perm(mode), asked |-> mode])
    /\ sb_next_ino' = sb_next_ino + 1
    /\ tasks' = <<[op |-> "mkdir", ino |-> alloc_inode,
                   perm |-> attr_perm(mask_perm(mode)), asked |-> mode]>>
    /\ UNCHANGED <<file_handles, next_fh, mutable, files, objs>>
    /\ PermQuiet

\* Filesystem::create: the mutable file, the inode with perm, the handle
PermCreate(parent, name, mode) ==
    /\ alloc_inode <= MaxSbIno
    /\ next_fh <= MaxFh
    /\ entry_error(parent, name) = "ok"
    /\ files' = Append(files, <<>>)
    /\ mutable' = [mutable EXCEPT ![first_writable] = @ \cup {Len(files) + 1}]
    /\ objs' = Append(objs, [store |-> first_writable, file |-> TRUE, lock |-> FALSE,
                             len |-> 0, keep |-> FALSE])
    /\ superblock' = add_inode(parent, name,
                               [kind |-> "MutableFile", id |-> Len(files) + 1,
                                perm |-> mask_perm(mode), asked |-> mode])
    /\ sb_next_ino' = sb_next_ino + 1
    /\ file_handles' = [file_handles EXCEPT ![next_fh] =
                          [OpenRegularFile(alloc_inode) EXCEPT !.for_writing = TRUE]]
    /\ next_fh' = next_fh + 1
    /\ tasks' = <<[op |-> "create", ino |-> alloc_inode,
                   perm |-> attr_perm(mask_perm(mode)), asked |-> mode]>>
    /\ PermQuiet

PermInit ==
    /\ superblock = [i \in EngInos |-> IF i = root_ino THEN PermRoot ELSE NoInode]
    /\ sb_next_ino = root_ino + 1
    /\ file_handles = [fh \in Fhs |-> NoHandle]
    /\ next_fh = 1
    /\ tasks = <<>>
    /\ ca = [s \in StoreIds |-> {}]
    /\ mutable = [s \in StoreIds |-> {}]
    /\ files = <<>>
    /\ objs = <<>>
    /\ io_fail = {}
    /\ wrote = {}
    /\ CatTables

PermNext ==
    \/ \E ino \in EngInos : Getattr(ino)
    \/ \E ino \in EngInos, mode \in Modes : Setattr(ino, mode)
    \/ \E name \in Names, mode \in Modes : Mkdir(root_ino, name, mode)
    \/ \E name \in Names, mode \in Modes : PermCreate(root_ino, name, mode)

SpecPerm == PermInit /\ [][PermNext]_vars

\* C38: for every permission value p in 0 .. 0o7777, after mkdir or create
\* with mode p, or setattr with mode p, getattr reports perm exactly p
C38_PermRoundTrip ==
    \A i \in 1 .. Len(tasks) :
       tasks[i].op = "getattr" /\ tasks[i].asked \in Perms
          => tasks[i].perm = tasks[i].asked


\* task t is a finalisation under way or ended: a Finalize request past its
\* lookup, or a release inside finish
Finalising(t) ==
    \/ tasks[t].op = "Finalize" /\ tasks[t].pc \in {"open", "finishA", "finishB", "commit"}
    \/ tasks[t].op = "release" /\ tasks[t].pc \in {"finishA", "finishB", "convert"}
    \/ /\ tasks[t].op \in {"Finalize", "release"} /\ tasks[t].pc = "done"
       /\ tasks[t].res.kind \in {"panic", "StorageError", "NoSuchMutableFile",
                                 "NotMutableFile"}

\* the task of t unwound
Aborted(t) == tasks[t].pc = "done" /\ tasks[t].res.kind = "panic"

\* C39: when two finalisations of the same mutable file run concurrently
\* (two Finalize requests, or a Finalize and the release of the writer
\* handle), the losing one does not abort, and an inode that became
\* immutable has its blob in a store
C39_ConcurrentFinalisations ==
    \A t \in TaskIds, u \in TaskIds :
       t # u /\ Finalising(t) /\ Finalising(u) =>
          /\ ~Aborted(t)
          /\ \A i \in EngInos :
                get_inode(i).kind = "RegularFile" =>
                   \E s \in StoreIds : has(s, get_inode(i).hash)


\* the reads that pass their latch step in this move
Latching == {t \in TaskIds : /\ tasks[t].op = "read" /\ tasks[t].pc = "latch"
                             /\ tasks'[t].pc = "done"}

\* the slot of handle fh is written in this move
SlotWritten(fh) ==
    /\ file_handles'[fh] # NoHandle
    /\ file_handles[fh] = NoHandle \/ file_handles'[fh].store # file_handles[fh].store
    /\ file_handles'[fh].store # 0

\* C40: the sticky-store slot is only written for a handle that is still in
\* the handle table: a read whose handle was released between its successful
\* probe and its latch fails with BadFileHandle, the released id is not
\* created again, and the slot of no other handle is touched
C40_LatchOnlyLiveHandle ==
    [][/\ \A t \in Latching :
             LET fh == tasks[t].fh
             IN /\ IF file_handles[fh] = NoHandle
                   THEN /\ tasks'[t].res.kind = "BadFileHandle"
                        /\ file_handles' = file_handles
                   ELSE /\ tasks'[t].res.kind = "data"
                        /\ file_handles'[fh] # NoHandle
                /\ \A g \in Fhs \ {fh} : file_handles'[g] = file_handles[g]
       /\ \A fh \in Fhs :
             /\ SlotWritten(fh) =>
                   /\ file_handles[fh] # NoHandle
                   /\ \E t \in Latching : tasks[t].fh = fh
             /\ fh < next_fh /\ file_handles[fh] = NoHandle
                   => file_handles'[fh] = NoHandle]_vars

\* a read found the blob in a store and then failed with BadFileHandle, its
\* handle having been released meanwhile; the other handle is still open
C40_Witness ==
    \E t \in TaskIds :
       /\ tasks[t].op = "read" /\ tasks[t].pc = "done"
       /\ tasks[t].res.kind = "BadFileHandle"
       /\ "log" \in DOMAIN tasks[t].res
       /\ tasks[t].res.log[Len(tasks[t].res.log)].ans = "data"
       /\ file_handles[tasks[t].res.fh] = NoHandle
       /\ \E g \in Fhs : file_handles[g] # NoHandle
=============================================================================
